---- MODULE Spec2Model ----
(***************************************************************************)
(* A model of the push_decode decoders: the leaf decoders (ByteArrayDecoder,*)
(* U8Decoder, ByteVecDecoder, IntDecoder, Utf8StringDecoder), the decoding  *)
(* combinators (Chain, Then, ThenTry) and a caller that feeds one input     *)
(* byte sequence to one decoder in chunks of any sizes and then calls end.  *)
(***************************************************************************)
EXTENDS Integers, Sequences, FiniteSets, TLC

(***************************************************************************)
(* Bounds of the model.                                                     *)
(***************************************************************************)
\* largest N of ByteArrayDecoder<N> and largest required length of ByteVecDecoder
MaxN == 2
\* longest input byte sequence
MaxInput == 4
\* largest required length of a Utf8StringDecoder
MaxRequired == 4

\* bytes offered to the length-based decoders
LenBytes == {0, 1, 2}
\* bytes offered to the decoders that hold a Utf8StringDecoder: an ASCII byte
\* (also a length prefix), two continuation bytes (0x80 may not follow 0xF0),
\* and the lead bytes of a 2-, 3- and 4-byte sequence
Utf8Bytes == {2, 128, 159, 195, 226, 240}

Min(a, b) == IF a < b THEN a ELSE b

Max(a, b) == IF a < b THEN b ELSE a

\* bytes[from..] of a slice, `from` counted from 0 as in the source
SliceFrom(bytes, from) == SubSeq(bytes, from + 1, Len(bytes))

\* bytes[..to]
SliceTo(bytes, to) == SubSeq(bytes, 1, to)

(***************************************************************************)
(* Results and errors.                                                      *)
(***************************************************************************)
OkUnit == [tag |-> "Ok"]

Ok(v) == [tag |-> "Ok", val |-> v]

Err(e) == [tag |-> "Err", err |-> e]

Panic(msg) == [tag |-> "Panic", msg |-> msg]

UnexpectedEnd(missing) == [type |-> "UnexpectedEnd", missing |-> missing]

InvalidUtf8(error) == [type |-> "InvalidUtf8", valid_up_to |-> error.valid_up_to, error_len |-> error.error_len]

UnexpectedEndUtf8(e) == [type |-> "Utf8UnexpectedEnd", inner |-> e]

\* either::Either
Left(e) == [type |-> "Left", inner |-> e]

Right(e) == [type |-> "Right", inner |-> e]

\* E: From<First::Error> + From<Second::Error>: the conversion into the
\* caller's error type keeps the converted error
IntoE(e) == [type |-> "E", source |-> e]

\* Result::map_err(Either::Left)
MapLeft(r) == IF r.tag = "Err" THEN Err(Left(r.err)) ELSE r

\* Result::map_err(Either::Right)
MapRight(r) == IF r.tag = "Err" THEN Err(Right(r.err)) ELSE r

\* Result::map_err(Into::into)
MapInto(r) == IF r.tag = "Err" THEN Err(IntoE(r.err)) ELSE r

(***************************************************************************)
(* ByteArrayDecoder<N>                                                      *)
(***************************************************************************)
\* MaybeUninit::uninit(): a byte of buf that was never written
Uninit == -1

ByteArrayNew(N) == [kind |-> "ByteArray", N |-> N, buf |-> [i \in 1..N |-> Uninit], len |-> 0]

\* a decode_chunk that copies from the second byte of the chunk on
ByteArrayDecodeChunkSkipsFirst(d, bytes) ==
    LET to_copy == Min(Len(bytes), d.N - d.len)
    IN [dec |-> [d EXCEPT !.buf = [i \in 1..d.N |->
                                     IF i > d.len /\ i <= d.len + to_copy
                                     THEN bytes[Min(i - d.len + 1, Len(bytes))] ELSE d.buf[i]],
                          !.len = d.len + to_copy],
        rest |-> SliceFrom(bytes, to_copy),
        res |-> OkUnit]

ByteArrayDecodeChunk(d, bytes) ==
    LET to_copy == Min(Len(bytes), d.N - d.len)
    IN [dec |-> [d EXCEPT !.buf = [i \in 1..d.N |->
                                     IF i > d.len /\ i <= d.len + to_copy
                                     THEN bytes[i - d.len] ELSE d.buf[i]],
                          !.len = d.len + to_copy],
        rest |-> SliceFrom(bytes, to_copy),
        res |-> OkUnit]

ByteArrayEnd(d) ==
    IF d.len < d.N
    THEN Err(UnexpectedEnd(d.N - d.len))
    ELSE Ok(d.buf)

(***************************************************************************)
(* U8Decoder: buf is an Option<u8>, <<>> for None and <<b>> for Some(b)     *)
(***************************************************************************)
U8New == [kind |-> "U8", buf |-> <<>>]

\* a decode_chunk that takes a byte of every chunk, full or not
U8DecodeChunkOverwrites(d, bytes) ==
    IF Len(bytes) > 0
    THEN [dec |-> [d EXCEPT !.buf = <<bytes[1]>>], rest |-> SliceFrom(bytes, 1), res |-> OkUnit]
    ELSE [dec |-> d, rest |-> bytes, res |-> OkUnit]

U8DecodeChunk(d, bytes) ==
    IF d.buf = <<>> /\ Len(bytes) > 0
    THEN [dec |-> [d EXCEPT !.buf = <<bytes[1]>>], rest |-> SliceFrom(bytes, 1), res |-> OkUnit]
    ELSE [dec |-> d, rest |-> bytes, res |-> OkUnit]

U8End(d) ==
    IF d.buf = <<>> THEN Err(UnexpectedEnd(1)) ELSE Ok(d.buf[1])

(***************************************************************************)
(* ByteVecDecoder                                                           *)
(***************************************************************************)
ByteVecNew(required_bytes) == [kind |-> "ByteVec", buf |-> <<>>, required |-> required_bytes]

\* with_reserve_limit: the limit bounds the capacity reserved, which is no part
\* of the decoder's behaviour
ByteVecWithReserveLimit(required_bytes, limit) ==
    [kind |-> "ByteVec", buf |-> <<>>, required |-> required_bytes]

ByteVecDecodeChunk(d, bytes) ==
    LET to_copy == Min(Len(bytes), d.required - Len(d.buf))
    IN [dec |-> [d EXCEPT !.buf = d.buf \o SliceTo(bytes, to_copy)],
        rest |-> SliceFrom(bytes, to_copy),
        res |-> OkUnit]

\* an end that reports the required length as the missing count
ByteVecEndReportsRequired(d) ==
    IF Len(d.buf) < d.required
    THEN Err(UnexpectedEnd(d.required))
    ELSE Ok(d.buf)

ByteVecEnd(d) ==
    IF Len(d.buf) < d.required
    THEN Err(UnexpectedEnd(d.required - Len(d.buf)))
    ELSE Ok(d.buf)

(***************************************************************************)
(* IntDecoder<T, Endian>: a ByteArrayDecoder<size_of::<T>()> whose array is *)
(* turned into the integer at end only                                      *)
(***************************************************************************)
\* the sizes in bytes of the integer types modelled: u8 and u16
IntSizes == {1, 2}

RECURSIVE FromBeBytes(_)
FromBeBytes(bytes) ==
    IF Len(bytes) = 0 THEN 0
    ELSE FromBeBytes(SliceTo(bytes, Len(bytes) - 1)) * 256 + bytes[Len(bytes)]

RECURSIVE FromLeBytes(_)
FromLeBytes(bytes) ==
    IF Len(bytes) = 0 THEN 0
    ELSE bytes[1] + 256 * FromLeBytes(SliceFrom(bytes, 1))

IntNew(size, endian) == [kind |-> "Int", endian |-> endian, inner |-> ByteArrayNew(size)]

IntDecodeChunk(d, bytes) ==
    LET r == ByteArrayDecodeChunk(d.inner, bytes)
    IN [dec |-> [d EXCEPT !.inner = r.dec], rest |-> r.rest, res |-> r.res]

IntEnd(d) ==
    LET r == ByteArrayEnd(d.inner)
    IN IF r.tag = "Ok"
       THEN Ok(IF d.endian = "BE" THEN FromBeBytes(r.val) ELSE FromLeBytes(r.val))
       ELSE r

(***************************************************************************)
(* core::str::from_utf8, as Utf8StringDecoder calls it. The result is Ok or *)
(* a Utf8Error: valid_up_to, and error_len as an Option (<<>> for None: the *)
(* input ends inside a sequence that more bytes could complete; <<k>> for   *)
(* Some(k): the k bytes at valid_up_to can never be made valid).            *)
(***************************************************************************)
\* utf8_char_width of a lead byte
Utf8CharWidth(b) ==
    IF b < 128 THEN 1
    ELSE IF b >= 194 /\ b <= 223 THEN 2
    ELSE IF b >= 224 /\ b <= 239 THEN 3
    ELSE IF b >= 240 /\ b <= 244 THEN 4
    ELSE 0

\* a continuation byte: 0x80..=0xBF
IsCont(b) == b >= 128 /\ b <= 191

\* the second byte allowed after the lead byte of a 3-byte sequence
Second3Ok(first, b) ==
    \/ first = 224 /\ b >= 160 /\ b <= 191
    \/ first >= 225 /\ first <= 236 /\ IsCont(b)
    \/ first = 237 /\ b >= 128 /\ b <= 159
    \/ first >= 238 /\ first <= 239 /\ IsCont(b)

\* the second byte allowed after the lead byte of a 4-byte sequence
Second4Ok(first, b) ==
    \/ first = 240 /\ b >= 144 /\ b <= 191
    \/ first >= 241 /\ first <= 243 /\ IsCont(b)
    \/ first = 244 /\ b >= 128 /\ b <= 143

Utf8Error(valid_up_to, error_len) == [valid_up_to |-> valid_up_to, error_len |-> error_len]

\* the validation loop from byte `index` (counted from 0) on
RECURSIVE RunUtf8Validation(_, _)
RunUtf8Validation(v, index) ==
    IF index >= Len(v) THEN OkUnit
    ELSE
      LET first == v[index + 1]
          w == Utf8CharWidth(first)
          has(k) == index + k < Len(v)
          at(k) == v[index + k + 1]
          err(n) == Err(Utf8Error(index, n))
      IN IF first < 128 THEN RunUtf8Validation(v, index + 1)
         ELSE IF w = 2 THEN
                IF ~has(1) THEN err(<<>>)
                ELSE IF ~IsCont(at(1)) THEN err(<<1>>)
                ELSE RunUtf8Validation(v, index + 2)
         ELSE IF w = 3 THEN
                IF ~has(1) THEN err(<<>>)
                ELSE IF ~Second3Ok(first, at(1)) THEN err(<<1>>)
                ELSE IF ~has(2) THEN err(<<>>)
                ELSE IF ~IsCont(at(2)) THEN err(<<2>>)
                ELSE RunUtf8Validation(v, index + 3)
         ELSE IF w = 4 THEN
                IF ~has(1) THEN err(<<>>)
                ELSE IF ~Second4Ok(first, at(1)) THEN err(<<1>>)
                ELSE IF ~has(2) THEN err(<<>>)
                ELSE IF ~IsCont(at(2)) THEN err(<<2>>)
                ELSE IF ~has(3) THEN err(<<>>)
                ELSE IF ~IsCont(at(3)) THEN err(<<3>>)
                ELSE RunUtf8Validation(v, index + 4)
         ELSE err(<<1>>)

FromUtf8(v) == RunUtf8Validation(v, 0)

(***************************************************************************)
(* Utf8StringDecoder                                                        *)
(***************************************************************************)
Utf8StringNew(len_bytes) ==
    [kind |-> "Utf8", buf |-> <<>>, valid_up_to |-> 0, required |-> len_bytes]

\* the three-way outcome of a validation `r` of the bytes from valid_up_to on:
\* `copied` tells whether the bytes were already in the buffer when it ran
\* an outcome that counts the bytes of a sequence cut short by the end of the
\* chunk as validated
Utf8OutcomeCountsIncomplete(d, bytes, to_copy, copied, r) ==
    IF r.tag = "Ok" \/ r.err.error_len = <<>>
    THEN [dec |-> [d EXCEPT !.buf = d.buf \o SliceTo(bytes, to_copy),
                            !.valid_up_to = Len(d.buf) + to_copy],
          rest |-> SliceFrom(bytes, to_copy), res |-> OkUnit]
    ELSE [dec |-> IF copied THEN [d EXCEPT !.buf = d.buf \o SliceTo(bytes, to_copy)] ELSE d,
          rest |-> bytes, res |-> Err(InvalidUtf8(r.err))]

\* an outcome that takes a sequence cut short by the end of the chunk for an error
Utf8OutcomeRejectsIncomplete(d, bytes, to_copy, copied, r) ==
    IF r.tag = "Ok"
    THEN [dec |-> [d EXCEPT !.buf = d.buf \o SliceTo(bytes, to_copy),
                            !.valid_up_to = Len(d.buf) + to_copy],
          rest |-> SliceFrom(bytes, to_copy), res |-> OkUnit]
    ELSE [dec |-> IF copied THEN [d EXCEPT !.buf = d.buf \o SliceTo(bytes, to_copy)] ELSE d,
          rest |-> bytes, res |-> Err(InvalidUtf8(r.err))]

Utf8Outcome(d, bytes, to_copy, copied, r) ==
    IF r.tag = "Ok"
    THEN [dec |-> [d EXCEPT !.buf = d.buf \o SliceTo(bytes, to_copy),
                            !.valid_up_to = IF copied THEN Len(d.buf) + to_copy
                                            ELSE d.valid_up_to + to_copy],
          rest |-> SliceFrom(bytes, to_copy), res |-> OkUnit]
    ELSE IF r.err.error_len = <<>>
    THEN [dec |-> [d EXCEPT !.buf = d.buf \o SliceTo(bytes, to_copy),
                            !.valid_up_to = d.valid_up_to + r.err.valid_up_to],
          rest |-> SliceFrom(bytes, to_copy), res |-> OkUnit]
    ELSE [dec |-> IF copied THEN [d EXCEPT !.buf = d.buf \o SliceTo(bytes, to_copy)] ELSE d,
          rest |-> bytes, res |-> Err(InvalidUtf8(r.err))]

\* a decode_chunk that validates the bytes of the chunk only, whatever the
\* buffer holds
Utf8StringCopyChunkOnly(d, bytes, to_copy) ==
    IF to_copy = 0 THEN [dec |-> d, rest |-> bytes, res |-> OkUnit]
    ELSE Utf8Outcome(d, bytes, to_copy, FALSE, FromUtf8(SliceTo(bytes, to_copy)))

\* decode_chunk once to_copy is known
Utf8StringCopy(d, bytes, to_copy) ==
    IF to_copy = 0 THEN [dec |-> d, rest |-> bytes, res |-> OkUnit]
    ELSE IF d.valid_up_to = Len(d.buf)
    \* pre-check to avoid copying if the bytes are invalid anyway
    THEN Utf8Outcome(d, bytes, to_copy, FALSE, FromUtf8(SliceTo(bytes, to_copy)))
    ELSE Utf8Outcome(d, bytes, to_copy, TRUE,
                     FromUtf8(SliceFrom(d.buf \o SliceTo(bytes, to_copy), d.valid_up_to)))

\* a decode_chunk that takes the whole chunk, whatever is still required
Utf8StringDecodeChunkWholeChunk(d, bytes) == Utf8StringCopy(d, bytes, Len(bytes))

Utf8StringDecodeChunk(d, bytes) ==
    Utf8StringCopy(d, bytes, Min(Len(bytes), d.required - Len(d.buf)))

\* from_utf8(&self.buf).unwrap_err(): a panic if the buffer is valid
UnwrapErr(r) ==
    IF r.tag = "Err" THEN Err(InvalidUtf8(r.err)) ELSE Panic("unwrap_err on an Ok value")

\* an end that returns the buffer without looking at valid_up_to
Utf8StringEndUnchecked(d) ==
    IF Len(d.buf) < d.required
    THEN Err(UnexpectedEndUtf8(UnexpectedEnd(d.required - Len(d.buf))))
    ELSE Ok(d.buf)

Utf8StringEnd(d) ==
    IF Len(d.buf) < d.required
    THEN Err(UnexpectedEndUtf8(UnexpectedEnd(d.required - Len(d.buf))))
    ELSE IF d.valid_up_to = Len(d.buf)
         THEN Ok(d.buf)
         ELSE UnwrapErr(FromUtf8(d.buf))

(***************************************************************************)
(* The leaf decoders behind the Decoder trait                               *)
(***************************************************************************)
LeafKinds == {"ByteArray", "U8", "ByteVec", "Int", "Utf8"}

LeafDecodeChunk(d, bytes) ==
    CASE d.kind = "ByteArray" -> ByteArrayDecodeChunk(d, bytes)
      [] d.kind = "U8" -> U8DecodeChunk(d, bytes)
      [] d.kind = "ByteVec" -> ByteVecDecodeChunk(d, bytes)
      [] d.kind = "Int" -> IntDecodeChunk(d, bytes)
      [] d.kind = "Utf8" -> Utf8StringDecodeChunk(d, bytes)

LeafEnd(d) ==
    CASE d.kind = "ByteArray" -> ByteArrayEnd(d)
      [] d.kind = "U8" -> U8End(d)
      [] d.kind = "ByteVec" -> ByteVecEnd(d)
      [] d.kind = "Int" -> IntEnd(d)
      [] d.kind = "Utf8" -> Utf8StringEnd(d)

\* Decoder::bytes_received, the provided method: prev_len - bytes.len()
Received(bytes, r) ==
    [dec |-> r.dec, res |-> IF r.res.tag = "Ok" THEN Ok(Len(bytes) - Len(r.rest)) ELSE r.res]

LeafBytesReceived(d, bytes) == Received(bytes, LeafDecodeChunk(d, bytes))

(***************************************************************************)
(* What a combinator did inside one call: the calls it made on its stages   *)
(* and on its continuation, in order. off and len give the part of the      *)
(* chunk handed to a stage (off counted from 0), n the bytes it consumed.   *)
(***************************************************************************)
Call(stage, op, off, len, n, ok) ==
    [stage |-> stage, op |-> op, off |-> off, len |-> len, n |-> n, ok |-> ok]

ChunkCall(stage, off, bytes, rest, res) ==
    Call(stage, "decode_chunk", off, Len(bytes), Len(bytes) - Len(rest), res.tag = "Ok")

EndCallOf(stage, res) == Call(stage, "end", 0, 0, 0, res.tag = "Ok")

FunCall(res) == Call(0, "fun", 0, 0, 0, res.tag = "Ok")

Errored == [tag |-> "Errored"]

Panicked == [tag |-> "Panicked"]

(***************************************************************************)
(* decoders::combinators::Chain                                             *)
(***************************************************************************)
ChainFirst(first, second) == [tag |-> "First", first |-> first, second |-> second]

ChainSecond(first_val, second) == [tag |-> "Second", first_val |-> first_val, second |-> second]

ChainNew(first, second) == [kind |-> "Chain", state |-> ChainFirst(first, second)]

\* decode_chunk, State::Second arm: r is what second.decode_chunk returned for
\* the bytes of the chunk from `off` on
ChainInSecond(first_val, bytes, off, calls, r) ==
    [dec |-> [kind |-> "Chain", state |-> ChainSecond(first_val, r.dec)],
     rest |-> r.rest,
     res |-> MapRight(r.res),
     calls |-> Append(calls, ChunkCall(2, off, bytes, r.rest, r.res))]

\* a switch that does not mark the Chain as failed when first.end() fails
ChainSwitchKeepsFirst(d, rest, off, calls, e) ==
    IF e.tag = "Err"
    THEN [dec |-> d, rest |-> rest, res |-> MapLeft(e), calls |-> Append(calls, EndCallOf(1, e))]
    ELSE IF e.tag = "Panic"
    THEN [dec |-> [d EXCEPT !.state = Panicked], rest |-> rest, res |-> e,
          calls |-> Append(calls, EndCallOf(1, e))]
    ELSE ChainInSecond(e.val, rest, off, Append(calls, EndCallOf(1, e)),
                       LeafDecodeChunk(d.state.second, rest))

\* decode_chunk, State::First arm with bytes left over: e is what first.end()
\* returned; take_first has left State::Panicked until a new state is stored
ChainSwitch(d, rest, off, calls, e) ==
    IF e.tag = "Err"
    THEN [dec |-> [d EXCEPT !.state = Errored], rest |-> rest, res |-> MapLeft(e),
          calls |-> Append(calls, EndCallOf(1, e))]
    ELSE IF e.tag = "Panic"
    THEN [dec |-> [d EXCEPT !.state = Panicked], rest |-> rest, res |-> e,
          calls |-> Append(calls, EndCallOf(1, e))]
    ELSE ChainInSecond(e.val, rest, off, Append(calls, EndCallOf(1, e)),
                       LeafDecodeChunk(d.state.second, rest))

\* a First arm that hands the second stage the chunk from its beginning
ChainInFirstRefeeds(d, bytes, r1) ==
    IF r1.res.tag = "Err"
    THEN [dec |-> [d EXCEPT !.state = ChainFirst(r1.dec, d.state.second)],
          rest |-> r1.rest, res |-> MapLeft(r1.res),
          calls |-> <<ChunkCall(1, 0, bytes, r1.rest, r1.res)>>]
    ELSE IF r1.rest # <<>>
    THEN ChainSwitch(d, bytes, 0, <<ChunkCall(1, 0, bytes, r1.rest, r1.res)>>, LeafEnd(r1.dec))
    ELSE [dec |-> [d EXCEPT !.state = ChainFirst(r1.dec, d.state.second)],
          rest |-> r1.rest, res |-> OkUnit,
          calls |-> <<ChunkCall(1, 0, bytes, r1.rest, r1.res)>>]

\* decode_chunk, State::First arm: r1 is what first.decode_chunk returned
ChainInFirst(d, bytes, r1) ==
    IF r1.res.tag = "Err"
    THEN [dec |-> [d EXCEPT !.state = ChainFirst(r1.dec, d.state.second)],
          rest |-> r1.rest, res |-> MapLeft(r1.res),
          calls |-> <<ChunkCall(1, 0, bytes, r1.rest, r1.res)>>]
    ELSE IF r1.rest # <<>>
    THEN ChainSwitch(d, r1.rest, Len(bytes) - Len(r1.rest),
                     <<ChunkCall(1, 0, bytes, r1.rest, r1.res)>>, LeafEnd(r1.dec))
    ELSE [dec |-> [d EXCEPT !.state = ChainFirst(r1.dec, d.state.second)],
          rest |-> r1.rest, res |-> OkUnit,
          calls |-> <<ChunkCall(1, 0, bytes, r1.rest, r1.res)>>]

ChainDecodeChunk(d, bytes) ==
    CASE d.state.tag = "First" ->
           ChainInFirst(d, bytes, LeafDecodeChunk(d.state.first, bytes))
      [] d.state.tag = "Second" ->
           ChainInSecond(d.state.first_val, bytes, 0, <<>>,
                         LeafDecodeChunk(d.state.second, bytes))
      [] d.state.tag = "Errored" ->
           [dec |-> d, rest |-> bytes, res |-> Panic("use of failed decoder"), calls |-> <<>>]
      [] d.state.tag = "Panicked" ->
           [dec |-> d, rest |-> bytes, res |-> Panic("use of panicked decoder"), calls |-> <<>>]

\* an end that looks at the second stage's result before the first's
ChainEndBothSecondFirst(first, second) ==
    IF second.tag # "Ok"
    THEN [res |-> MapRight(second),
          calls |-> <<EndCallOf(1, first), EndCallOf(2, second)>>]
    ELSE IF first.tag # "Ok"
    THEN [res |-> MapLeft(first), calls |-> <<EndCallOf(1, first)>>]
    ELSE [res |-> Ok(<<first.val, second.val>>),
          calls |-> <<EndCallOf(1, first), EndCallOf(2, second)>>]

\* end, State::First arm: first and second are what the stages' end returned
\* (second.end() is called only if first.end() returned Ok)
ChainEndBoth(first, second) ==
    IF first.tag # "Ok"
    THEN [res |-> MapLeft(first), calls |-> <<EndCallOf(1, first)>>]
    ELSE IF second.tag # "Ok"
    THEN [res |-> MapRight(second),
          calls |-> <<EndCallOf(1, first), EndCallOf(2, second)>>]
    ELSE [res |-> Ok(<<first.val, second.val>>),
          calls |-> <<EndCallOf(1, first), EndCallOf(2, second)>>]

\* an end that returns the pair in the wrong order
ChainEndSecondSwapped(first_val, second) ==
    IF second.tag # "Ok"
    THEN [res |-> MapRight(second), calls |-> <<EndCallOf(2, second)>>]
    ELSE [res |-> Ok(<<second.val, first_val>>), calls |-> <<EndCallOf(2, second)>>]

\* end, State::Second arm
ChainEndSecond(first_val, second) ==
    IF second.tag # "Ok"
    THEN [res |-> MapRight(second), calls |-> <<EndCallOf(2, second)>>]
    ELSE [res |-> Ok(<<first_val, second.val>>), calls |-> <<EndCallOf(2, second)>>]

ChainEnd(d) ==
    CASE d.state.tag = "First" -> ChainEndBoth(LeafEnd(d.state.first), LeafEnd(d.state.second))
      [] d.state.tag = "Second" -> ChainEndSecond(d.state.first_val, LeafEnd(d.state.second))
      [] d.state.tag = "Errored" -> [res |-> Panic("use of failed decoder"), calls |-> <<>>]
      [] d.state.tag = "Panicked" -> [res |-> Panic("use of panicked decoder"), calls |-> <<>>]

(***************************************************************************)
(* The continuations handed to then and then_try. They are the caller's     *)
(* closures: make names the decoder built, arg tells whether the first      *)
(* stage's value is the length itself (an integer) or a byte string whose   *)
(* length is used, and a then_try closure refuses a length above limit.     *)
(***************************************************************************)
FunLen(fun, val) == IF fun.arg = "len" THEN Len(val) ELSE val

MakeSecond(fun, len) ==
    IF fun.make = "ByteVec" THEN ByteVecNew(len) ELSE Utf8StringNew(len)

\* a continuation that is given no value
ApplyFunOfNothing(fun, val) == MakeSecond(fun, 0)

\* FnOnce(First::Value) -> Second
ApplyFun(fun, val) == MakeSecond(fun, FunLen(fun, val))

\* FnOnce(First::Value) -> Result<Second, E>
ApplyTryFun(fun, val) ==
    IF FunLen(fun, val) > fun.limit
    THEN Err([type |-> "E", source |-> [type |-> "TooLong", len |-> FunLen(fun, val)]])
    ELSE Ok(MakeSecond(fun, FunLen(fun, val)))

(***************************************************************************)
(* decoders::combinators::Then                                              *)
(***************************************************************************)
ThenFirst(first, fun) == [tag |-> "First", first |-> first, fun |-> fun]

ThenSecond(second) == [tag |-> "Second", second |-> second]

ThenNew(first, fun) == [kind |-> "Then", state |-> ThenFirst(first, fun)]

\* the bytes a stage's bytes_received consumed (nothing is returned on Err)
Got(r) == IF r.res.tag = "Ok" THEN r.res.val ELSE 0

\* a switch that returns what the second stage consumed only
ThenInSecondDropsLen(d, bytes, len, calls, r2) ==
    [dec |-> [d EXCEPT !.state = ThenSecond(r2.dec)],
     res |-> MapRight(r2.res),
     calls |-> Append(calls, Call(2, "decode_chunk", len, Len(bytes) - len, Got(r2),
                                  r2.res.tag = "Ok"))]

\* bytes_received, First arm after fun(val): r2 is what second.bytes_received
\* returned for &bytes[len..]
ThenInSecond(d, bytes, len, calls, r2) ==
    [dec |-> [d EXCEPT !.state = ThenSecond(r2.dec)],
     res |-> IF r2.res.tag = "Ok" THEN Ok(r2.res.val + len) ELSE MapRight(r2.res),
     calls |-> Append(calls, Call(2, "decode_chunk", len, Len(bytes) - len, Got(r2),
                                  r2.res.tag = "Ok"))]

\* bytes_received, First arm with len < bytes.len(): result is what first.end()
\* returned
ThenSwitch(d, bytes, len, calls, result) ==
    IF result.tag = "Err"
    THEN [dec |-> [d EXCEPT !.state = Errored], res |-> MapLeft(result),
          calls |-> Append(calls, EndCallOf(1, result))]
    ELSE IF result.tag = "Panic"
    THEN [dec |-> [d EXCEPT !.state = Panicked], res |-> result,
          calls |-> Append(calls, EndCallOf(1, result))]
    ELSE ThenInSecond(d, bytes, len, calls \o <<EndCallOf(1, result), FunCall(OkUnit)>>,
                      LeafBytesReceived(ApplyFun(d.state.fun, result.val),
                                        SliceFrom(bytes, len)))

\* bytes_received, First arm: r1 is what first.bytes_received returned. The
\* state is Panicked from the first line of the method on, and stays so when
\* the method returns early
ThenInFirst(d, bytes, r1) ==
    IF r1.res.tag = "Err"
    THEN [dec |-> [d EXCEPT !.state = Panicked], res |-> MapLeft(r1.res),
          calls |-> <<Call(1, "decode_chunk", 0, Len(bytes), 0, FALSE)>>]
    ELSE IF r1.res.val < Len(bytes)
    THEN ThenSwitch(d, bytes, r1.res.val,
                    <<Call(1, "decode_chunk", 0, Len(bytes), r1.res.val, TRUE)>>,
                    LeafEnd(r1.dec))
    ELSE [dec |-> [d EXCEPT !.state = ThenFirst(r1.dec, d.state.fun)], res |-> Ok(r1.res.val),
          calls |-> <<Call(1, "decode_chunk", 0, Len(bytes), r1.res.val, TRUE)>>]

\* bytes_received, Second arm
ThenOnSecond(d, bytes, r) ==
    [dec |-> [d EXCEPT !.state = ThenSecond(r.dec)],
     res |-> MapRight(r.res),
     calls |-> <<Call(2, "decode_chunk", 0, Len(bytes), Got(r), r.res.tag = "Ok")>>]

\* a bytes_received that starts over with the first stage after an error
ThenBytesReceivedStartsOver(d, bytes) ==
    CASE d.state.tag = "First" ->
           ThenInFirst(d, bytes, LeafBytesReceived(d.state.first, bytes))
      [] d.state.tag = "Second" ->
           ThenOnSecond(d, bytes, LeafBytesReceived(d.state.second, bytes))
      [] OTHER ->
           [dec |-> [d EXCEPT !.state = ThenFirst(U8New, [make |-> "ByteVec", arg |-> "value"])],
            res |-> Ok(0), calls |-> <<>>]

ThenBytesReceived(d, bytes) ==
    CASE d.state.tag = "First" ->
           ThenInFirst(d, bytes, LeafBytesReceived(d.state.first, bytes))
      [] d.state.tag = "Second" ->
           ThenOnSecond(d, bytes, LeafBytesReceived(d.state.second, bytes))
      [] d.state.tag = "Panicked" ->
           [dec |-> [d EXCEPT !.state = Panicked],
            res |-> Panic("Decoder::bytes_received called after it already panicked"),
            calls |-> <<>>]
      [] d.state.tag = "Errored" ->
           [dec |-> [d EXCEPT !.state = Panicked],
            res |-> Panic("Decoder::bytes_received called after it already returned an error"),
            calls |-> <<>>]

\* end, First arm after fun(val): second is what the new decoder's end returned
ThenEndMade(val, second) ==
    [res |-> MapRight(second),
     calls |-> <<EndCallOf(1, val), FunCall(OkUnit), EndCallOf(2, second)>>]

\* end, First arm: val is what first.end() returned
ThenEndFirst(d, val) ==
    IF val.tag # "Ok"
    THEN [res |-> MapLeft(val), calls |-> <<EndCallOf(1, val)>>]
    ELSE ThenEndMade(val, LeafEnd(ApplyFun(d.state.fun, val.val)))

\* end, Second arm
ThenEndSecond(second) ==
    [res |-> MapRight(second), calls |-> <<EndCallOf(2, second)>>]

ThenEnd(d) ==
    CASE d.state.tag = "First" -> ThenEndFirst(d, LeafEnd(d.state.first))
      [] d.state.tag = "Second" -> ThenEndSecond(LeafEnd(d.state.second))
      [] d.state.tag = "Panicked" ->
           [res |-> Panic("Decoder::end called after Decoder::bytes_received already panicked"),
            calls |-> <<>>]
      [] d.state.tag = "Errored" ->
           [res |-> Panic("Decoder::end called after Decoder::bytes_received already returned an error"),
            calls |-> <<>>]

(***************************************************************************)
(* decoders::combinators::ThenTry                                           *)
(***************************************************************************)
ThenTryNew(first, fun) == [kind |-> "ThenTry", state |-> ThenFirst(first, fun)]

\* a try_and_mark! that returns the error without storing Errored
TryAndMarkLeavesPanicked(d, rest, error, calls) ==
    [dec |-> [d EXCEPT !.state = Panicked], rest |-> rest, res |-> Err(error), calls |-> calls]

\* try_and_mark!: on Err the state becomes Errored and the error, converted
\* into E, is returned
TryAndMark(d, rest, error, calls) ==
    [dec |-> [d EXCEPT !.state = Errored], rest |-> rest, res |-> Err(error), calls |-> calls]

\* decode_chunk, from second.decode_chunk on: r is what it returned for `bytes`,
\* the part of the chunk from `off` on
ThenTryInSecond(d, bytes, off, calls, r) ==
    IF r.res.tag = "Err"
    THEN TryAndMark(d, r.rest, IntoE(r.res.err),
                    Append(calls, ChunkCall(2, off, bytes, r.rest, r.res)))
    ELSE [dec |-> [d EXCEPT !.state = ThenSecond(r.dec)], rest |-> r.rest, res |-> OkUnit,
          calls |-> Append(calls, ChunkCall(2, off, bytes, r.rest, r.res))]

\* decode_chunk, First arm after first.end(): second is what fun(val) returned
ThenTryMade(d, rest, off, calls, second) ==
    IF second.tag = "Err"
    THEN TryAndMark(d, rest, second.err, Append(calls, FunCall(second)))
    ELSE ThenTryInSecond(d, rest, off, Append(calls, FunCall(second)),
                         LeafDecodeChunk(second.val, rest))

\* decode_chunk, First arm with bytes left over: val is what first.end() returned
ThenTrySwitch(d, rest, off, calls, val) ==
    IF val.tag = "Err"
    THEN TryAndMark(d, rest, IntoE(val.err), Append(calls, EndCallOf(1, val)))
    ELSE IF val.tag = "Panic"
    THEN [dec |-> [d EXCEPT !.state = Panicked], rest |-> rest, res |-> val,
          calls |-> Append(calls, EndCallOf(1, val))]
    ELSE ThenTryMade(d, rest, off, Append(calls, EndCallOf(1, val)),
                     ApplyTryFun(d.state.fun, val.val))

\* decode_chunk, First arm: r1 is what first.decode_chunk returned. The state
\* is Panicked from the first line of the method on
ThenTryInFirst(d, bytes, r1) ==
    IF r1.res.tag = "Err"
    THEN TryAndMark(d, r1.rest, IntoE(r1.res.err), <<ChunkCall(1, 0, bytes, r1.rest, r1.res)>>)
    ELSE IF r1.rest # <<>>
    THEN ThenTrySwitch(d, r1.rest, Len(bytes) - Len(r1.rest),
                       <<ChunkCall(1, 0, bytes, r1.rest, r1.res)>>, LeafEnd(r1.dec))
    ELSE [dec |-> [d EXCEPT !.state = ThenFirst(r1.dec, d.state.fun)],
          rest |-> r1.rest, res |-> OkUnit,
          calls |-> <<ChunkCall(1, 0, bytes, r1.rest, r1.res)>>]

ThenTryDecodeChunk(d, bytes) ==
    CASE d.state.tag = "First" ->
           ThenTryInFirst(d, bytes, LeafDecodeChunk(d.state.first, bytes))
      [] d.state.tag = "Second" ->
           ThenTryInSecond(d, bytes, 0, <<>>, LeafDecodeChunk(d.state.second, bytes))
      [] d.state.tag = "Panicked" ->
           [dec |-> [d EXCEPT !.state = Panicked], rest |-> bytes,
            res |-> Panic("Decoder::decode_chunk called after it already panicked"),
            calls |-> <<>>]
      [] d.state.tag = "Errored" ->
           [dec |-> [d EXCEPT !.state = Panicked], rest |-> bytes,
            res |-> Panic("Decoder::decode_chunk called after it already returned an error"),
            calls |-> <<>>]

\* end, First arm after fun(val)?: second is what the new decoder's end returned
ThenTryEndSecondOf(calls, second) ==
    [res |-> MapInto(second), calls |-> Append(calls, EndCallOf(2, second))]

\* end, First arm after first.end()?: made is what fun(val) returned
ThenTryEndMade(val, made) ==
    IF made.tag = "Err"
    THEN [res |-> made, calls |-> <<EndCallOf(1, val), FunCall(made)>>]
    ELSE ThenTryEndSecondOf(<<EndCallOf(1, val), FunCall(made)>>, LeafEnd(made.val))

\* end, First arm: val is what first.end() returned
ThenTryEndFirst(d, val) ==
    IF val.tag # "Ok"
    THEN [res |-> MapInto(val), calls |-> <<EndCallOf(1, val)>>]
    ELSE ThenTryEndMade(val, ApplyTryFun(d.state.fun, val.val))

ThenTryEnd(d) ==
    CASE d.state.tag = "First" -> ThenTryEndFirst(d, LeafEnd(d.state.first))
      [] d.state.tag = "Second" -> ThenTryEndSecondOf(<<>>, LeafEnd(d.state.second))
      [] d.state.tag = "Panicked" ->
           [res |-> Panic("Decoder::end called after Decoder::decode_chunk already panicked"),
            calls |-> <<>>]
      [] d.state.tag = "Errored" ->
           [res |-> Panic("Decoder::end called after Decoder::decode_chunk already returned an error"),
            calls |-> <<>>]

(***************************************************************************)
(* The Decoder trait as the caller sees it                                  *)
(***************************************************************************)
\* decode_chunk of the decoders that implement it
DecodeChunk(d, bytes) ==
    CASE d.kind = "Chain" -> ChainDecodeChunk(d, bytes)
      [] d.kind = "ThenTry" -> ThenTryDecodeChunk(d, bytes)
      [] OTHER -> LeafDecodeChunk(d, bytes) @@ [calls |-> <<>>]

\* Decoder::bytes_received, the provided method, with the calls made
ReceivedWithCalls(bytes, r) ==
    [dec |-> r.dec,
     res |-> IF r.res.tag = "Ok" THEN Ok(Len(bytes) - Len(r.rest)) ELSE r.res,
     calls |-> r.calls]

\* Decoder::bytes_received: the provided method over decode_chunk, except for
\* Then, which implements bytes_received itself
BytesReceived(d, bytes) ==
    IF d.kind = "Then" THEN ThenBytesReceived(d, bytes)
    ELSE ReceivedWithCalls(bytes, DecodeChunk(d, bytes))

\* Decoder::end
End(d) ==
    CASE d.kind = "Chain" -> ChainEnd(d)
      [] d.kind = "Then" -> ThenEnd(d)
      [] d.kind = "ThenTry" -> ThenTryEnd(d)
      [] OTHER -> [res |-> LeafEnd(d), calls |-> <<>>]

(***************************************************************************)
(* KnownMinLenDecoder::min_required_bytes                                   *)
(***************************************************************************)
\* usize::MAX, here that of a target with 16-bit pointers
UsizeMax == 65535

\* usize::saturating_add
SaturatingAdd(a, b) == Min(a + b, UsizeMax)

ByteArrayMinRequiredBytes(d) == d.N - d.len

\* a min_required_bytes that reports one byte also when the byte is there
U8MinRequiredBytesAlwaysOne(d) == 1

U8MinRequiredBytes(d) == IF d.buf = <<>> THEN 1 ELSE 0

ByteVecMinRequiredBytes(d) == d.required - Len(d.buf)

Utf8StringMinRequiredBytes(d) == d.required - Len(d.buf)

\* implemented for IntDecoder<T, BigEndian> only
IntMinRequiredBytes(d) == ByteArrayMinRequiredBytes(d.inner)

LeafMinRequiredBytes(d) ==
    CASE d.kind = "ByteArray" -> ByteArrayMinRequiredBytes(d)
      [] d.kind = "U8" -> U8MinRequiredBytes(d)
      [] d.kind = "ByteVec" -> ByteVecMinRequiredBytes(d)
      [] d.kind = "Int" -> IntMinRequiredBytes(d)
      [] d.kind = "Utf8" -> Utf8StringMinRequiredBytes(d)

\* a min_required_bytes that leaves the second stage out
ChainMinRequiredBytesFirstOnly(d) ==
    CASE d.state.tag = "First" -> LeafMinRequiredBytes(d.state.first)
      [] d.state.tag = "Second" -> LeafMinRequiredBytes(d.state.second)
      [] d.state.tag = "Errored" -> Panic("use of failed decoder")
      [] d.state.tag = "Panicked" -> Panic("use of panicked decoder")

ChainMinRequiredBytes(d) ==
    CASE d.state.tag = "First" ->
           SaturatingAdd(LeafMinRequiredBytes(d.state.first),
                         LeafMinRequiredBytes(d.state.second))
      [] d.state.tag = "Second" -> LeafMinRequiredBytes(d.state.second)
      [] d.state.tag = "Errored" -> Panic("use of failed decoder")
      [] d.state.tag = "Panicked" -> Panic("use of panicked decoder")

MinRequiredBytes(d) ==
    IF d.kind = "Chain" THEN ChainMinRequiredBytes(d) ELSE LeafMinRequiredBytes(d)

\* the leaf decoder implements KnownMinLenDecoder
LeafKnownMinLen(d) == d.kind = "Int" => d.endian = "BE"

\* the decoder, as constructed, implements KnownMinLenDecoder
KnownMinLen(d) ==
    CASE d.kind = "Chain" -> LeafKnownMinLen(d.state.first) /\ LeafKnownMinLen(d.state.second)
      [] d.kind \in {"Then", "ThenTry"} -> FALSE
      [] OTHER -> LeafKnownMinLen(d)

(***************************************************************************)
(* The decoders a run may construct, and the inputs it may be given         *)
(***************************************************************************)
\* ByteArrayDecoder::<N>::new(), U8Decoder::new(), ByteVecDecoder::new(r)
LenStages ==
    {ByteArrayNew(n) : n \in 0..MaxN} \cup {U8New} \cup {ByteVecNew(r) : r \in 0..MaxN}

IntDecoders == {IntNew(size, endian) : size \in IntSizes, endian \in {"BE", "LE"}}

\* whether the value of a leaf decoder is an integer or a byte string
ArgOf(first) == IF first.kind \in {"U8", "Int"} THEN "value" ELSE "len"

\* the first stages of the Then and ThenTry decoders modelled
ThenFirsts == {U8New, IntNew(2, "BE"), ByteVecNew(1), ByteArrayNew(0)}

\* the lengths above which a then_try continuation fails
TryLimits == {1, 255}

LenDecoders ==
    LenStages \cup IntDecoders
    \cup {ChainNew(a, b) : a \in LenStages, b \in LenStages}
    \cup {ThenNew(a, [make |-> "ByteVec", arg |-> ArgOf(a)]) : a \in ThenFirsts}
    \cup {ThenTryNew(a, [make |-> "ByteVec", arg |-> ArgOf(a), limit |-> l]) :
            a \in ThenFirsts, l \in TryLimits}

Utf8Stages == {Utf8StringNew(r) : r \in 1..2}

Utf8Decoders ==
    {Utf8StringNew(r) : r \in 0..MaxRequired}
    \cup {ChainNew(a, U8New) : a \in Utf8Stages}
    \cup {ChainNew(U8New, a) : a \in Utf8Stages}
    \cup {ThenNew(U8New, [make |-> "Utf8", arg |-> "value"])}
    \cup {ThenNew(a, [make |-> "ByteVec", arg |-> "len"]) : a \in Utf8Stages}
    \cup {ThenTryNew(U8New, [make |-> "Utf8", arg |-> "value", limit |-> 3])}
    \cup {ThenTryNew(a, [make |-> "ByteVec", arg |-> "len", limit |-> 1]) : a \in Utf8Stages}

\* a Chain whose stages need more than usize::MAX bytes together
HugeDecoders == {ChainNew(ByteVecWithReserveLimit(UsizeMax, 0), U8New)}

Decoders == LenDecoders \cup Utf8Decoders \cup HugeDecoders

SeqsUpTo(S, n) == UNION {[1..k -> S] : k \in 0..n}

InputsOf(d) ==
    IF d \in Utf8Decoders THEN SeqsUpTo(Utf8Bytes, MaxInput) ELSE SeqsUpTo(LenBytes, MaxInput)

(***************************************************************************)
(* The caller. It constructs one decoder, offers it the input in chunks of  *)
(* any sizes (empty ones too) with bytes_received, each chunk starting      *)
(* where the last one ended, and calls end at any moment. After a call that *)
(* returned an error it may go on calling (a usage violation); a panic ends *)
(* the run, and so does end, which takes the decoder by value.              *)
(***************************************************************************)
VARIABLES
    ctor,       \* the decoder as constructed
    input,      \* the whole input
    offered,    \* how many bytes of the input have been offered so far
    decoder,    \* the decoder now
    consumed,   \* the sum of what the bytes_received calls returned
    status,     \* "active", "failed" (a call returned Err), "ended", "panicked"
    misused,    \* a call was made after a call had returned Err
    result,     \* the first error returned, or what end returned
    last,       \* the last call: its chunk, the decoder before it, what it returned
    hist        \* what the stages of a combinator have received so far

vars == <<ctor, input, offered, decoder, consumed, status, misused, result, last, hist>>

\* An encoder and its caller, in the runs of the second specification below.
VARIABLES
    ector,      \* the expression that constructed the encoder
    tracked,    \* the encoder is wrapped by track_position
    enc,        \* the encoder now (the EncoderPositionTracker if tracked)
    out,        \* the bytes written by write_to_vec, or consumed so far
    estatus,    \* "idle", "active", "written" (write_to_vec took it), "panicked"
    seen,       \* what encoded_chunk returned since the encoder last advanced
    elast,      \* the last call: the encoder before it and what it returned
    ehist       \* how many next calls, whether one returned false, the chunk then

encVars == <<ector, tracked, enc, out, estatus, seen, elast, ehist>>

\* no encoder has been constructed
EncIdle ==
    /\ ector = [op |-> "none"]
    /\ tracked = FALSE
    /\ enc = [kind |-> "None"]
    /\ out = <<>>
    /\ estatus = "idle"
    /\ seen = [tag |-> "None"]
    /\ elast = [op |-> "none"]
    /\ ehist = [nexts |-> 0]

NoResult == [tag |-> "None"]

\* hist after a call that started with `off` bytes offered and made `calls`
Record(h, off, calls, chunk) ==
    LET idx == DOMAIN calls
        firstChunks == {i \in idx : calls[i].stage = 1 /\ calls[i].op = "decode_chunk"
                                    /\ calls[i].n > 0}
        secondChunks == {i \in idx : calls[i].stage = 2 /\ calls[i].op = "decode_chunk"
                                     /\ calls[i].len > 0}
    IN [firstEnded |-> h.firstEnded
                       \/ \E i \in idx : calls[i].stage = 1 /\ calls[i].op = "end" /\ calls[i].ok,
        firstTo |-> IF firstChunks = {} THEN h.firstTo
                    ELSE LET i == CHOOSE i \in firstChunks : TRUE
                         IN Max(h.firstTo, off + calls[i].off + calls[i].n),
        secondFrom |-> IF h.secondFrom # 0 \/ secondChunks = {} THEN h.secondFrom
                       ELSE LET i == CHOOSE i \in secondChunks : TRUE
                            IN off + calls[i].off + 1,
        funCalls |-> h.funCalls + Cardinality({i \in idx : calls[i].op = "fun"}),
        split |-> h.split \/ (Len(chunk) > 0 /\ Len(chunk) < Len(input))]

Init ==
    /\ ctor \in Decoders
    /\ input \in InputsOf(ctor)
    /\ offered = 0
    /\ decoder = ctor
    /\ consumed = 0
    /\ status = "active"
    /\ misused = FALSE
    /\ result = NoResult
    /\ hist = [firstEnded |-> FALSE, firstTo |-> 0, secondFrom |-> 0, funCalls |-> 0,
               split |-> FALSE]
    /\ last = [op |-> "new", chunk |-> <<>>, pre |-> ctor, res |-> NoResult, calls |-> <<>>,
               before |-> hist]
    /\ EncIdle

\* the caller's state after bytes_received(chunk) returned r
AfterBytesReceived(chunk, r) ==
    /\ decoder' = r.dec
    /\ offered' = offered + Len(chunk)
    /\ consumed' = IF r.res.tag = "Ok" THEN consumed + r.res.val ELSE consumed
    /\ status' = CASE r.res.tag = "Panic" -> "panicked"
                   [] r.res.tag = "Err" -> "failed"
                   [] OTHER -> status
    /\ misused' = (misused \/ status = "failed")
    /\ result' = IF result = NoResult /\ r.res.tag # "Ok" THEN r.res ELSE result
    /\ hist' = Record(hist, offered, r.calls, chunk)
    /\ last' = [op |-> "bytes_received", chunk |-> chunk, pre |-> decoder, res |-> r.res,
                calls |-> r.calls, before |-> hist]

\* decoder.bytes_received(chunk)
Offer(chunk) == AfterBytesReceived(chunk, BytesReceived(decoder, chunk))

\* decoder.bytes_received(chunk), chunk being the next n bytes of the input
CallBytesReceived(n) ==
    /\ status \in {"active", "failed"}
    /\ n <= Len(input) - offered
    /\ Offer(SubSeq(input, offered + 1, offered + n))
    /\ UNCHANGED <<ctor, input>>
    /\ UNCHANGED encVars

\* the caller's state after end() returned r
AfterEnd(r) ==
    /\ status' = IF r.res.tag = "Panic" THEN "panicked" ELSE "ended"
    /\ misused' = (misused \/ status = "failed")
    /\ result' = IF result = NoResult THEN r.res ELSE result
    /\ hist' = Record(hist, offered, r.calls, <<>>)
    /\ last' = [op |-> "end", chunk |-> <<>>, pre |-> decoder, res |-> r.res,
                calls |-> r.calls, before |-> hist]

\* decoder.end()
CallEnd ==
    /\ status \in {"active", "failed"}
    /\ AfterEnd(End(decoder))
    /\ UNCHANGED <<ctor, input, offered, decoder, consumed>>
    /\ UNCHANGED encVars

Next ==
    \/ \E n \in 0..MaxInput : CallBytesReceived(n)
    \/ CallEnd

Spec == Init /\ [][Next]_<<vars, encVars>>

(***************************************************************************)
(* Encoders: encoders/bytes.rs, encoders/int.rs                             *)
(***************************************************************************)
\* how many items an IterEncoder is given at most
MaxItems == 3

\* how many next calls a caller makes at most
MaxCalls == 8

BytesEncoderNew(bytes) == [kind |-> "Bytes", bytes |-> bytes]

BytesEncodedChunk(e) == e.bytes

\* next of BytesEncoder and IntEncoder
LeafNext(e) == [enc |-> e, more |-> FALSE]

\* to_be_bytes of an integer `size` bytes wide
ToBeBytes(value, size) == [i \in 1..size |-> (value \div (256 ^ (size - i))) % 256]

\* a to_le_bytes that yields the big-endian order
ToLeBytesMsbFirst(value, size) == [i \in 1..size |-> (value \div (256 ^ (size - i))) % 256]

ToLeBytes(value, size) == [i \in 1..size |-> (value \div (256 ^ (i - 1))) % 256]

IntEncoderNewBe(value, size) == [kind |-> "Int", bytes |-> ToBeBytes(value, size)]

IntEncoderNewLe(value, size) == [kind |-> "Int", bytes |-> ToLeBytes(value, size)]

IntEncodedChunk(e) == e.bytes

(***************************************************************************)
(* Encoder::encoded_chunk of every encoder                                  *)
(***************************************************************************)
RECURSIVE EncodedChunk(_)

IterEncodedChunk(e) == IF e.state = "Encoding" THEN EncodedChunk(e.current) ELSE <<>>

EncChainEncodedChunk(e) ==
    IF e.first # <<>> THEN EncodedChunk(e.first[1]) ELSE EncodedChunk(e.second)

EncThenEncodedChunk(e) == EncodedChunk(e.encoder)

EncodedChunk(e) ==
    CASE e.kind = "Bytes" -> BytesEncodedChunk(e)
      [] e.kind = "Int" -> IntEncodedChunk(e)
      [] e.kind = "Iter" -> IterEncodedChunk(e)
      [] e.kind = "Chain" -> EncChainEncodedChunk(e)
      [] e.kind = "Then" -> EncThenEncodedChunk(e)

(***************************************************************************)
(* IterEncoder: encoders/iter.rs                                            *)
(***************************************************************************)
IterDone == [kind |-> "Iter", state |-> "Done"]

IterEncoding(current, remaining) ==
    [kind |-> "Iter", state |-> "Encoding", current |-> current, remaining |-> remaining]

\* Into<BytesEncoder> of an item
IntoEncoder(item) == BytesEncoderNew(item)

RECURSIVE IterNewLoop(_)
\* the loop of IterEncoder::new over the items left
IterNewLoop(iter) ==
    IF iter = <<>> THEN IterDone
    ELSE IF EncodedChunk(IntoEncoder(Head(iter))) # <<>>
         THEN IterEncoding(IntoEncoder(Head(iter)), Tail(iter))
         ELSE IterNewLoop(Tail(iter))

IterEncoderNew(iter) == IterNewLoop(iter)

\* a loop of next that stops at the next item, empty or not
IterNextLoopNoSkip(remaining) ==
    IF remaining = <<>> THEN [enc |-> IterDone, more |-> FALSE]
    ELSE [enc |-> IterEncoding(IntoEncoder(Head(remaining)), Tail(remaining)), more |-> TRUE]

RECURSIVE IterNextLoop(_)
\* the loop of IterEncoder::next over the items left
IterNextLoop(remaining) ==
    IF remaining = <<>> THEN [enc |-> IterDone, more |-> FALSE]
    ELSE IF EncodedChunk(IntoEncoder(Head(remaining))) # <<>>
         THEN [enc |-> IterEncoding(IntoEncoder(Head(remaining)), Tail(remaining)),
               more |-> TRUE]
         ELSE IterNextLoop(Tail(remaining))

\* IterEncoder::next after current.next() returned r
IterAfterCurrent(e, r) ==
    IF r.more THEN [enc |-> IterEncoding(r.enc, e.remaining), more |-> TRUE]
    ELSE IterNextLoop(e.remaining)

(***************************************************************************)
(* Chain: encoders/combinators/chain.rs                                     *)
(***************************************************************************)
\* a Chain::new that keeps an empty first encoder
EncChainNewKeepsFirst(first, second) ==
    [kind |-> "Chain", first |-> <<first>>, second |-> second]

\* first: Option<A> is <<>> for None and <<a>> for Some(a)
EncChainNew(first, second) ==
    [kind |-> "Chain",
     first |-> IF EncodedChunk(first) = <<>> THEN <<>> ELSE <<first>>,
     second |-> second]

\* a next that reports the end once the first encoder has ended
EncChainAfterFirstEndsEarly(e, r) ==
    IF r.more THEN [enc |-> [e EXCEPT !.first = <<r.enc>>], more |-> TRUE]
    ELSE [enc |-> [e EXCEPT !.first = <<>>], more |-> FALSE]

\* Chain::next after first.next() returned r
EncChainAfterFirst(e, r) ==
    IF r.more THEN [enc |-> [e EXCEPT !.first = <<r.enc>>], more |-> TRUE]
    ELSE [enc |-> [e EXCEPT !.first = <<>>], more |-> EncodedChunk(e.second) # <<>>]

\* Chain::next after second.next() returned r
EncChainAfterSecond(e, r) == [enc |-> [e EXCEPT !.second = r.enc], more |-> r.more]

(***************************************************************************)
(* Then: encoders/combinators/then.rs                                       *)
(***************************************************************************)
EncThenFirst(encoder, fun) ==
    [kind |-> "Then", state |-> "First", encoder |-> encoder, fun |-> fun]

EncThenSecond(encoder) == [kind |-> "Then", state |-> "Second", encoder |-> encoder]

\* the closure is held as the encoder it constructs
EncThenNew(first_encoder, second_encoder_constructor) ==
    EncThenFirst(first_encoder, second_encoder_constructor)

\* fun()
CallConstructor(fun) == fun

\* a switch to the second encoder that always reports another chunk
EncThenSwitchAlwaysMore(new_encoder) == [enc |-> EncThenSecond(new_encoder), more |-> TRUE]

\* Then::next in State::First, new_encoder being what fun() returned
EncThenSwitch(new_encoder) ==
    [enc |-> EncThenSecond(new_encoder), more |-> EncodedChunk(new_encoder) # <<>>]

\* a Then that calls the constructor at every next() of its first phase
EncThenAfterFirstEager(e, r) == EncThenSwitch(CallConstructor(e.fun))

\* Then::next in State::First after encoder.next() returned r
EncThenAfterFirst(e, r) ==
    IF r.more THEN [enc |-> [e EXCEPT !.encoder = r.enc], more |-> TRUE]
    ELSE EncThenSwitch(CallConstructor(e.fun))

\* Then::next in State::Second after encoder.next() returned r
EncThenAfterSecond(e, r) == [enc |-> [e EXCEPT !.encoder = r.enc], more |-> r.more]

(***************************************************************************)
(* Encoder::next of every encoder: the encoder after it and what it returned *)
(***************************************************************************)
RECURSIVE EncoderNext(_)

IterNext(e) ==
    IF e.state = "Encoding" THEN IterAfterCurrent(e, EncoderNext(e.current))
    ELSE [enc |-> e, more |-> FALSE]

EncChainNext(e) ==
    IF e.first # <<>> THEN EncChainAfterFirst(e, EncoderNext(e.first[1]))
    ELSE EncChainAfterSecond(e, EncoderNext(e.second))

EncThenNext(e) ==
    IF e.state = "First" THEN EncThenAfterFirst(e, EncoderNext(e.encoder))
    ELSE EncThenAfterSecond(e, EncoderNext(e.encoder))

EncoderNext(e) ==
    CASE e.kind \in {"Bytes", "Int"} -> LeafNext(e)
      [] e.kind = "Iter" -> IterNext(e)
      [] e.kind = "Chain" -> EncChainNext(e)
      [] e.kind = "Then" -> EncThenNext(e)

(***************************************************************************)
(* Encoder::write_to_vec                                                    *)
(***************************************************************************)
RECURSIVE WriteLoop(_, _)
\* write_to_vec after the chunk was appended and next() returned r
WriteAfterNext(r, buf) == IF r.more THEN WriteLoop(r.enc, buf) ELSE buf

\* the while loop of write_to_vec
WriteLoop(e, buf) ==
    IF EncodedChunk(e) # <<>>
    THEN WriteAfterNext(EncoderNext(e), buf \o EncodedChunk(e))
    ELSE buf

WriteToVec(e, buf) == WriteLoop(e, buf)

(***************************************************************************)
(* Encoder::write_to_slice. The target is a cursor into a buffer: written   *)
(* is what was copied to the front of the buffer so far, and room is the    *)
(* length of the slice the cursor still covers.                             *)
(***************************************************************************)
BufferOverflow(bytes_past_end) ==
    [type |-> "BufferOverflow", bytes_past_end |-> bytes_past_end]

\* a check that refuses a chunk that fills the buffer exactly
ChunkOverflowsWhenFull(chunk, room) == Len(chunk) >= room

\* chunk.len() > buf.len()
ChunkOverflows(chunk, room) == Len(chunk) > room

RECURSIVE SliceLoop(_, _, _)
\* write_to_slice after the chunk was copied and next() returned r
SliceAfterNext(r, written, room) ==
    IF r.more THEN SliceLoop(r.enc, written, room)
    ELSE [res |-> OkUnit, written |-> written, room |-> room]

\* the while loop of write_to_slice
SliceLoop(e, written, room) ==
    IF EncodedChunk(e) # <<>>
    THEN IF ChunkOverflows(EncodedChunk(e), room)
         THEN [res |-> Err(BufferOverflow(Len(EncodedChunk(e)) - room)),
               written |-> written, room |-> room]
         ELSE SliceAfterNext(EncoderNext(e), written \o EncodedChunk(e),
                             room - Len(EncodedChunk(e)))
    ELSE [res |-> OkUnit, written |-> written, room |-> room]

\* write_to_slice(&mut buf) with buf.len() = len
WriteToSlice(e, len) == SliceLoop(e, <<>>, len)

(***************************************************************************)
(* EncoderPositionTracker                                                   *)
(***************************************************************************)
EncoderPositionTrackerNew(encoder) == [kind |-> "Tracker", encoder |-> encoder, pos |-> 0]

\* &self.encoder.encoded_chunk()[self.pos..], which panics when pos is past the
\* end of the chunk
TrackerEncodedChunk(t) ==
    IF t.pos > Len(EncodedChunk(t.encoder))
    THEN Panic("range start index out of range for slice")
    ELSE Ok(SliceFrom(EncodedChunk(t.encoder), t.pos))

\* consume once pos has reached the end of the chunk and next() returned r
ConsumeAfterNext(pos, r) ==
    [kind |-> "Tracker", encoder |-> r.enc, pos |-> IF r.more THEN 0 ELSE pos]

\* consume(amount) with amount <= encoded_chunk().len(), for which the
\* debug assertion holds
Consume(t, amount) ==
    IF t.pos + amount >= Len(EncodedChunk(t.encoder))
    THEN ConsumeAfterNext(t.pos + amount, EncoderNext(t.encoder))
    ELSE [t EXCEPT !.pos = t.pos + amount]

(***************************************************************************)
(* The encoders a run may construct, as the expressions that construct      *)
(* them.                                                                    *)
(***************************************************************************)
NewBytes(bytes) == [op |-> "bytes", bytes |-> bytes]

NewInt(value, size, endian) == [op |-> "int", value |-> value, size |-> size, endian |-> endian]

NewIter(items) == [op |-> "iter", items |-> items]

NewChain(a, b) == [op |-> "chain", a |-> a, b |-> b]

NewThen(a, b) == [op |-> "then", a |-> a, b |-> b]

RECURSIVE Build(_)
\* the encoder the expression constructs
Build(c) ==
    CASE c.op = "bytes" -> BytesEncoderNew(c.bytes)
      [] c.op = "int" -> IF c.endian = "BE" THEN IntEncoderNewBe(c.value, c.size)
                         ELSE IntEncoderNewLe(c.value, c.size)
      [] c.op = "iter" -> IterEncoderNew(c.items)
      [] c.op = "chain" -> EncChainNew(Build(c.a), Build(c.b))
      [] c.op = "then" -> EncThenNew(Build(c.a), Build(c.b))

\* the byte strings given to BytesEncoder::new and as items to IterEncoder
EncItems == {<<>>, <<1>>, <<2, 3>>}

BytesEncoders == {NewBytes(b) : b \in EncItems}

\* u16 0x0405 in both byte orders
IntEncoders == {NewInt(1029, 2, endian) : endian \in {"BE", "LE"}}

IterEncoders == {NewIter(items) : items \in SeqsUpTo(EncItems, MaxItems)}

\* a.chain(b) and a.then(|| b)
Combined(as, bs) ==
    {NewChain(a, b) : a \in as, b \in bs} \cup {NewThen(a, b) : a \in as, b \in bs}

\* encoders that are stages of a combinator
Stages == BytesEncoders \cup Combined(BytesEncoders, BytesEncoders) \cup IterEncoders

Encoders == BytesEncoders \cup IntEncoders \cup IterEncoders \cup Combined(Stages, Stages)

(***************************************************************************)
(* The caller of an encoder: it constructs an encoder and either hands it   *)
(* to write_to_vec, or calls encoded_chunk and next itself, or wraps it by  *)
(* track_position and calls encoded_chunk and consume.                      *)
(***************************************************************************)
NoChunk == [tag |-> "None"]

\* an encoded_chunk that advances the encoder
AfterEncodedChunkAdvances(e) == IF e.kind = "Tracker" THEN e ELSE EncoderNext(e).enc

\* the encoder, or the tracker, after encoded_chunk(&self)
AfterEncodedChunk(e) == e

\* the chunk the caller gets from the encoder, or from the tracker
ChunkOf(e) == IF e.kind = "Tracker" THEN TrackerEncodedChunk(e) ELSE Ok(EncodedChunk(e))

EncInit ==
    /\ ector \in Encoders
    /\ tracked \in BOOLEAN
    /\ enc = IF tracked THEN EncoderPositionTrackerNew(Build(ector)) ELSE Build(ector)
    /\ out = <<>>
    /\ estatus = "active"
    /\ seen = NoChunk
    /\ elast = [op |-> "new"]
    /\ ehist = [nexts |-> 0, ended |-> FALSE, endChunk |-> <<>>, sawEmpty |-> FALSE,
                zero |-> FALSE]
    /\ ctor = [kind |-> "None"]
    /\ input = <<>>
    /\ offered = 0
    /\ decoder = [kind |-> "None"]
    /\ consumed = 0
    /\ status = "idle"
    /\ misused = FALSE
    /\ result = NoResult
    /\ last = [op |-> "none"]
    /\ hist = [split |-> FALSE]

\* the caller's state after encoded_chunk() returned chunk and left e
AfterCallEncodedChunk(e, chunk) ==
    /\ enc' = e
    /\ seen' = chunk
    /\ estatus' = IF chunk.tag = "Panic" THEN "panicked" ELSE estatus
    /\ elast' = [op |-> "encoded_chunk", pre |-> enc, res |-> chunk, before |-> seen]
    /\ ehist' = [ehist EXCEPT !.sawEmpty = @ \/ chunk = Ok(<<>>)]

\* encoder.encoded_chunk(), or tracker.encoded_chunk()
CallEncodedChunk ==
    /\ estatus = "active"
    /\ AfterCallEncodedChunk(AfterEncodedChunk(enc), ChunkOf(enc))
    /\ UNCHANGED <<ector, tracked, out>>
    /\ UNCHANGED vars

\* the caller's state after next() returned r
AfterCallNext(r) ==
    /\ enc' = r.enc
    /\ seen' = NoChunk
    /\ elast' = [op |-> "next", pre |-> enc, res |-> r.more]
    /\ ehist' = [nexts |-> ehist.nexts + 1,
                 ended |-> ehist.ended \/ ~r.more,
                 endChunk |-> IF ~ehist.ended /\ ~r.more THEN EncodedChunk(r.enc)
                              ELSE ehist.endChunk,
                 sawEmpty |-> ehist.sawEmpty \/ EncodedChunk(enc) = <<>>,
                 zero |-> ehist.zero]

\* encoder.next()
CallNext ==
    /\ estatus = "active"
    /\ ~tracked
    /\ ehist.nexts < MaxCalls
    /\ AfterCallNext(EncoderNext(enc))
    /\ UNCHANGED <<ector, tracked, out, estatus>>
    /\ UNCHANGED vars

\* encoder.write_to_vec(&mut buf) of a new encoder and an empty buf
CallWriteToVec ==
    /\ estatus = "active"
    /\ ~tracked
    /\ elast.op = "new"
    /\ out' = WriteToVec(enc, <<>>)
    /\ estatus' = "written"
    /\ elast' = [op |-> "write_to_vec", pre |-> enc]
    /\ UNCHANGED <<ector, tracked, enc, seen, ehist>>
    /\ UNCHANGED vars

\* the longest buffer handed to write_to_slice
MaxSlice == 4

\* the caller's state after write_to_slice returned r for a buffer of len bytes
AfterWriteToSlice(len, r) ==
    /\ out' = r.written
    /\ estatus' = "sliced"
    /\ elast' = [op |-> "write_to_slice", pre |-> enc, len |-> len, res |-> r.res,
                 room |-> r.room]

\* encoder.write_to_slice(&mut buf) of a new encoder and a buffer of len bytes
CallWriteToSlice(len) ==
    /\ estatus = "active"
    /\ ~tracked
    /\ elast.op = "new"
    /\ AfterWriteToSlice(len, WriteToSlice(enc, len))
    /\ UNCHANGED <<ector, tracked, enc, seen, ehist>>
    /\ UNCHANGED vars

\* consume(amount) reaches the end of the chunk and the encoder's next()
\* returns false
ConsumeEnds(t, amount) ==
    /\ t.pos + amount >= Len(EncodedChunk(t.encoder))
    /\ ~EncoderNext(t.encoder).more

\* tracker.consume(amount) after the caller processed amount bytes of chunk
ConsumeOf(chunk, amount) ==
    /\ amount <= Len(chunk)
    /\ enc' = Consume(enc, amount)
    /\ out' = out \o SliceTo(chunk, amount)
    /\ seen' = NoChunk
    /\ elast' = [op |-> "consume", pre |-> enc, res |-> amount]
    /\ ehist' = [ehist EXCEPT !.nexts = @ + 1, !.ended = @ \/ ConsumeEnds(enc, amount)]

\* tracker.consume(amount), 1 <= amount <= tracker.encoded_chunk().len()
CallConsume(amount) ==
    /\ estatus = "active"
    /\ tracked
    /\ TrackerEncodedChunk(enc).tag = "Ok"
    /\ ConsumeOf(TrackerEncodedChunk(enc).val, amount)
    /\ UNCHANGED <<ector, tracked, estatus>>
    /\ UNCHANGED vars

\* tracker.consume(0) of a tracker whose encoder's next() has returned false
CallConsumeNothing ==
    /\ estatus = "active"
    /\ tracked
    /\ ehist.ended
    /\ enc' = Consume(enc, 0)
    /\ seen' = NoChunk
    /\ elast' = [op |-> "consume", pre |-> enc, res |-> 0]
    /\ ehist' = [ehist EXCEPT !.zero = TRUE]
    /\ UNCHANGED <<ector, tracked, out, estatus>>
    /\ UNCHANGED vars

\* the longest chunk of the encoders above
MaxChunk == 2

EncNext ==
    \/ CallEncodedChunk
    \/ CallNext
    \/ CallWriteToVec
    \/ \E len \in 0..MaxSlice : CallWriteToSlice(len)
    \/ \E amount \in 1..MaxChunk : CallConsume(amount)
    \/ CallConsumeNothing

EncSpec == EncInit /\ [][EncNext]_<<vars, encVars>>

(***************************************************************************)
(* Round trips. The caller constructs an encoder and the decoder matching   *)
(* it, drains the encoder with write_to_vec, and offers the bytes written   *)
(* to the decoder in chunks of any sizes, as above.                         *)
(***************************************************************************)
\* the integers encoded: 0, one with two different bytes, and the largest
IntValues(size) == IF size = 1 THEN {0, 2, 255} ELSE {0, 1029, 65535}

\* the byte strings encoded
RoundBytes == SeqsUpTo({1, 2}, MaxN)

\* a value with its primitive encoder and the decoder matching it
Codec(encoder, dec) == [encoder |-> encoder, decoder |-> dec]

IntCodecs ==
    {Codec(NewInt(x, 1, "BE"), U8New) : x \in IntValues(1)}
    \cup {Codec(NewInt(x, 2, endian), IntNew(2, endian)) :
            x \in IntValues(2), endian \in {"BE", "LE"}}
    \cup {Codec(NewInt(x, 1, endian), IntNew(1, endian)) :
            x \in IntValues(1), endian \in {"BE", "LE"}}

BytesCodecs ==
    {Codec(NewBytes(b), ByteArrayNew(Len(b))) : b \in RoundBytes}
    \cup {Codec(NewBytes(b), ByteVecNew(Len(b))) : b \in RoundBytes}

\* a.chain(b) for the encoders, and for the decoders a.chain(b), or
\* len.then(|len| ByteVecDecoder::new(len)) when a is the length of b
PairCodecs ==
    {Codec(NewChain(a.encoder, b.encoder), ChainNew(a.decoder, b.decoder)) :
        a \in IntCodecs \cup BytesCodecs, b \in IntCodecs \cup BytesCodecs}
    \cup {Codec(NewChain(NewInt(Len(b), size, endian), NewBytes(b)),
                ThenNew(IntNew(size, endian), [make |-> "ByteVec", arg |-> "value"])) :
            b \in RoundBytes, size \in IntSizes, endian \in {"BE", "LE"}}
    \cup {Codec(NewChain(NewInt(Len(b), 1, "BE"), NewBytes(b)),
                ThenNew(U8New, [make |-> "ByteVec", arg |-> "value"])) : b \in RoundBytes}

RoundInit ==
    /\ \E c \in IntCodecs \cup PairCodecs :
        /\ ector = c.encoder
        /\ ctor = c.decoder
    /\ tracked = FALSE
    /\ enc = Build(ector)
    /\ out = <<>>
    /\ estatus = "active"
    /\ seen = [tag |-> "None"]
    /\ elast = [op |-> "new"]
    /\ ehist = [nexts |-> 0]
    /\ input = <<>>
    /\ offered = 0
    /\ decoder = ctor
    /\ consumed = 0
    /\ status = "active"
    /\ misused = FALSE
    /\ result = NoResult
    /\ hist = [firstEnded |-> FALSE, firstTo |-> 0, secondFrom |-> 0, funCalls |-> 0,
               split |-> FALSE]
    /\ last = [op |-> "new", chunk |-> <<>>, pre |-> ctor, res |-> NoResult, calls |-> <<>>,
               before |-> hist]

\* encoder.write_to_vec(&mut buf); buf is the input of the decoder
EncodeInput ==
    /\ estatus = "active"
    /\ out' = WriteToVec(enc, <<>>)
    /\ input' = out'
    /\ estatus' = "written"
    /\ elast' = [op |-> "write_to_vec", pre |-> enc]
    /\ UNCHANGED <<ector, tracked, enc, seen, ehist>>
    /\ UNCHANGED <<ctor, offered, decoder, consumed, status, misused, result, last, hist>>

RoundNext ==
    \/ EncodeInput
    \/ estatus = "written" /\ \E n \in 0..MaxInput : CallBytesReceived(n)
    \/ estatus = "written" /\ CallEnd

RoundSpec == RoundInit /\ [][RoundNext]_<<vars, encVars>>

(***************************************************************************)
(* Properties.                                                              *)
(***************************************************************************)
\* the bytes offered to the decoder so far
Fed == SliceTo(input, offered)

\* a run in which no call followed a call that returned an error
Proper == ~misused

\* what end returns after a chunk call that returned r
EndAfter(r) ==
    IF r.res.tag = "Ok"
    THEN [result |-> End(r.dec).res, consumed |-> r.res.val]
    ELSE [result |-> r.res, consumed |-> 0]

\* feeding `bytes` to a new decoder d as one chunk and then calling end
OneChunk(d, bytes) == EndAfter(BytesReceived(d, bytes))

\* the run is over: end was called, or a chunk call returned an error and the
\* caller stopped there
Over == status \in {"ended", "failed"}

\* C1: a length-based decoder (ByteArrayDecoder, U8Decoder, ByteVecDecoder,
\* IntDecoder, or a Chain, Then or ThenTry of them) that was fed its bytes in
\* chunks of any sizes and then finalized gives the result, and has consumed
\* the number of bytes, that it gives when fed the same bytes as one chunk;
\* a run that stopped at an error stopped at the error of the one-chunk run.
C1_LengthBasedSplitInvariance ==
    (ctor \in LenDecoders /\ Proper /\ Over) =>
        /\ result = OneChunk(ctor, Fed).result
        /\ status = "ended" => consumed = OneChunk(ctor, Fed).consumed

\* a Chain fed its whole input in at least two pieces that returned its pair
C1_Witness ==
    /\ ctor.kind = "Chain"
    /\ Proper
    /\ status = "ended"
    /\ hist.split
    /\ offered = Len(input)
    /\ consumed = 3
    /\ result.tag = "Ok"

\* C2: a Utf8StringDecoder fed its bytes in chunks of any sizes gives the
\* result it gives when fed the same bytes as one chunk: the same string, or
\* the same error with, for InvalidUtf8, the same valid-prefix position and
\* error length.
C2_Utf8SplitInvariance ==
    (ctor.kind = "Utf8" /\ Proper /\ Over) => result = OneChunk(ctor, Fed).result

\* the required length R of a leaf decoder
Required(d) ==
    CASE d.kind = "ByteArray" -> d.N
      [] d.kind = "U8" -> 1
      [] d.kind = "Int" -> d.inner.N
      [] OTHER -> d.required

\* the bytes a leaf decoder holds
Held(d) ==
    CASE d.kind = "ByteArray" -> [i \in 1..d.len |-> d.buf[i]]
      [] d.kind = "Int" -> [i \in 1..d.inner.len |-> d.inner.buf[i]]
      [] OTHER -> d.buf

\* the decoder is a combinator
IsCombinator(d) == d.kind \in {"Chain", "Then", "ThenTry"}

\* the innermost error of an error wrapped by Left, Right or the conversion
\* into the caller's type
RECURSIVE Innermost(_)
Innermost(e) ==
    IF e.type \in {"Left", "Right"} THEN Innermost(e.inner)
    ELSE IF e.type = "E" THEN Innermost(e.source)
    ELSE e

\* bytes that are valid UTF-8 followed by at most the beginning of a sequence
\* that more bytes could complete
Completable(v) == FromUtf8(v).tag = "Ok" \/ FromUtf8(v).err.error_len = <<>>

\* where the bytes of the Utf8StringDecoder of decoder d begin in the bytes fed
Utf8From(d) ==
    IF d.kind = "Utf8" THEN 0
    ELSE IF d.state.first.kind = "Utf8" THEN 0
    ELSE Required(d.state.first)

\* the decoder has a Utf8StringDecoder once `fed` was fed to it
HasUtf8(d, fed) ==
    \/ d.kind = "Utf8"
    \/ /\ IsCombinator(d)
       /\ \/ d.state.first.kind = "Utf8"
          \/ d.kind = "Chain" /\ d.state.second.kind = "Utf8"
          \/ d.kind \in {"Then", "ThenTry"} /\ d.state.fun.make = "Utf8" /\ Len(fed) >= 1

\* the required length of that Utf8StringDecoder
Utf8Required(d, fed) ==
    IF d.kind = "Utf8" THEN d.required
    ELSE IF d.state.first.kind = "Utf8" THEN d.state.first.required
    ELSE IF d.kind = "Chain" THEN d.state.second.required
    ELSE fed[1]

\* the bytes of `fed` that it accepts
Utf8Part(d, fed) ==
    SubSeq(fed, Utf8From(d) + 1, Min(Len(fed), Utf8From(d) + Utf8Required(d, fed)))

\* the bytes a leaf decoder has accepted once its decode_chunk took its part
\* of the chunk
Accepted(d, chunk) == Held(d) \o SliceTo(chunk, Min(Len(chunk), Required(d) - Len(Held(d))))

IsLeaf(d) == d.kind \in {"ByteArray", "U8", "ByteVec", "Utf8"}

\* the UnexpectedEnd error of a leaf decoder that misses `missing` bytes
Deficit(d, missing) ==
    IF d.kind = "Utf8" THEN Err(UnexpectedEndUtf8(UnexpectedEnd(missing)))
    ELSE Err(UnexpectedEnd(missing))

\* the value a leaf decoder makes of the bytes it required
ValueOf(d, bytes) == IF d.kind = "U8" THEN Ok(bytes[1]) ELSE Ok(bytes)

\* C4: end of a leaf decoder with required length R that has accepted k bytes
\* in total: k is at most R; if k < R, end fails with UnexpectedEnd whose
\* missing count is R - k; if k = R, end returns the value made of the first R
\* bytes offered, in the order offered (for Utf8StringDecoder when they are
\* valid UTF-8).
C4_LeafFinalization ==
    (IsLeaf(ctor) /\ Proper /\ last.op = "end") =>
        /\ consumed <= Required(ctor)
        /\ consumed < Required(ctor) => last.res = Deficit(ctor, Required(ctor) - consumed)
        /\ (consumed = Required(ctor)
            /\ (ctor.kind = "Utf8" => FromUtf8(SliceTo(input, Required(ctor))).tag = "Ok"))
               => last.res = ValueOf(ctor, SliceTo(input, Required(ctor)))

\* a ByteVecDecoder that was fed its two bytes one by one, and more, and
\* returned them
C4_Witness ==
    /\ ctor.kind = "ByteVec"
    /\ Required(ctor) = 2
    /\ last.op = "end"
    /\ hist.split
    /\ offered > 2
    /\ consumed = 2
    /\ input[1] # input[2]
    /\ last.res = Ok(SliceTo(input, 2))

\* C5: a successful chunk-consuming call on a leaf decoder with required
\* length R that has accepted k bytes consumes min(len(chunk), R - k) bytes,
\* the first bytes of the chunk, and leaves the rest of the chunk; a full
\* decoder consumes nothing and U8Decoder consumes at most one byte in total;
\* bytes_received returns that number.
C5_LeafConsumption ==
    (IsLeaf(ctor) /\ last.op = "bytes_received" /\ last.res.tag = "Ok") =>
        /\ last.res.val = Min(Len(last.chunk), Required(ctor) - Len(Held(last.pre)))
        /\ Held(decoder) = Held(last.pre) \o SliceTo(last.chunk, last.res.val)
        /\ LeafDecodeChunk(last.pre, last.chunk).rest = SliceFrom(last.chunk, last.res.val)
        /\ Len(Held(last.pre)) = Required(ctor) => last.res.val = 0
        /\ Proper => consumed = Len(Held(decoder))
        /\ consumed <= Required(ctor)
        /\ ctor.kind = "U8" => consumed <= 1

\* a ByteArrayDecoder<2> holding one byte that was offered two more and took one
C5_Witness ==
    /\ ctor.kind = "ByteArray"
    /\ Required(ctor) = 2
    /\ last.op = "bytes_received"
    /\ Len(Held(last.pre)) = 1
    /\ Len(last.chunk) = 2
    /\ last.res = Ok(1)

\* C6: once a chunk-consuming call of a Chain, Then or ThenTry decoder has
\* returned an error, every later chunk-consuming call and every later end
\* call on that decoder panics.
C6_UseAfterFailurePanics ==
    (IsCombinator(ctor) /\ misused) => last.res.tag = "Panic"

\* the second stage's chunk-consuming call number i of a call's calls comes
\* after an end of the first stage that returned Ok
AfterFirstEnd(before, calls, i) ==
    \/ before.firstEnded
    \/ \E j \in 1..(i - 1) : calls[j].stage = 1 /\ calls[j].op = "end" /\ calls[j].ok

\* C7: in a Chain, Then or ThenTry decoder the second stage's chunk-consuming
\* operation is invoked only after the first stage's end has returned Ok, no
\* operation of the first stage is invoked after that, and every byte handed
\* to the second stage comes later in the input than every byte the first
\* stage consumed.
C7_StageOrdering ==
    IsCombinator(ctor) =>
        /\ \A i \in DOMAIN last.calls :
             /\ (last.calls[i].stage = 2 /\ last.calls[i].op = "decode_chunk")
                    => AfterFirstEnd(last.before, last.calls, i)
             /\ last.calls[i].stage = 1 => ~AfterFirstEnd(last.before, last.calls, i)
        /\ hist.secondFrom # 0 => hist.secondFrom > hist.firstTo

\* a call that brought the first stage its last byte, finalized it and handed
\* the bytes after it to the second stage, in a run fed in pieces
C7_Witness ==
    /\ IsCombinator(ctor)
    /\ hist.split
    /\ last.op = "bytes_received"
    /\ Len(last.calls) >= 3
    /\ last.calls[1].stage = 1 /\ last.calls[1].n > 0
    /\ last.calls[Len(last.calls)].stage = 2 /\ last.calls[Len(last.calls)].n > 0
    /\ last.before.firstTo > 0
    /\ hist.secondFrom > hist.firstTo

\* the value a length-based leaf decoder makes of the bytes it required
Value(d, bytes) ==
    CASE d.kind = "U8" -> bytes[1]
      [] d.kind = "Int" -> IF d.endian = "BE" THEN FromBeBytes(bytes) ELSE FromLeBytes(bytes)
      [] OTHER -> bytes

\* the required lengths a and b of the stages of a Chain
ChainA == Required(ctor.state.first)

ChainB == Required(ctor.state.second)

\* C8: a Chain of length-based decoders with required lengths a and b that
\* was offered at least a + b bytes in any split has consumed a + b bytes, and
\* its end returns the pair of the value of the first a bytes and the value of
\* the next b bytes; as long as the first stage has consumed the whole of
\* every chunk the Chain is in its first phase.
C8_ChainResult ==
    (ctor.kind = "Chain" /\ ctor \in LenDecoders) =>
        /\ offered >= ChainA + ChainB => consumed = ChainA + ChainB
        /\ (last.op = "end" /\ offered >= ChainA + ChainB) =>
               last.res = Ok(<<Value(ctor.state.first, SubSeq(input, 1, ChainA)),
                               Value(ctor.state.second,
                                     SubSeq(input, ChainA + 1, ChainA + ChainB))>>)
        /\ (status = "active" /\ hist.firstTo = offered) => decoder.state.tag = "First"

\* a Chain of a 1-byte and a 2-byte decoder fed four bytes in pieces
C8_Witness ==
    /\ ctor.kind = "Chain"
    /\ ctor \in LenDecoders
    /\ ChainA = 1
    /\ ChainB = 2
    /\ ctor.state.first.kind # "U8"
    /\ last.op = "end"
    /\ hist.split
    /\ offered = 4
    /\ consumed = 3
    /\ input[2] # input[3]
    /\ last.res = Ok(<<SubSeq(input, 1, 1), SubSeq(input, 2, 3)>>)

\* U8Decoder::new().then(|len| ByteVecDecoder::new(len.into()))
LengthPrefixed == ThenNew(U8New, [make |-> "ByteVec", arg |-> "value"])

\* the bytes the stages consumed in the calls of one call
RECURSIVE StageSum(_)
StageSum(calls) ==
    IF calls = <<>> THEN 0
    ELSE (IF calls[1].op = "decode_chunk" THEN calls[1].n ELSE 0) + StageSum(Tail(calls))

\* C9: U8Decoder.then(|len| ByteVecDecoder::new(len)) offered n, b1..bn and
\* any further bytes, in any split, has consumed n + 1 bytes, and its end
\* returns b1..bn; every bytes_received returns the sum of what the two stages
\* consumed in it, also when the call spans the switch of stages.
C9_LengthPrefixed ==
    (ctor = LengthPrefixed /\ offered >= 1) =>
        /\ offered >= input[1] + 1 => consumed = input[1] + 1
        /\ (last.op = "end" /\ offered >= input[1] + 1) =>
               last.res = Ok(SubSeq(input, 2, input[1] + 1))
        /\ last.op = "bytes_received" => last.res = Ok(StageSum(last.calls))

\* one call that brought the length 2, both bytes and one more, and the end
\* after it
C9_Witness ==
    /\ ctor = LengthPrefixed
    /\ offered = 4
    /\ input[1] = 2
    /\ consumed = 3
    /\ input[2] # input[3]
    /\ last.op = "end"
    /\ last.res = Ok(SubSeq(input, 2, 3))
    /\ ~hist.split

\* the bytes are the encoding of one scalar value of more than one byte
IsScalar(v) ==
    /\ Len(v) >= 2
    /\ Utf8CharWidth(v[1]) = Len(v)
    /\ FromUtf8(v).tag = "Ok"

\* C10: a Utf8StringDecoder whose input is one multi-byte scalar. With the
\* required length that of the encoding, every chunk call, however the bytes
\* are split, returns Ok and consumes all it was offered, and end returns the
\* string; with a shorter required length (of at least one byte) every chunk
\* call returns Ok and end returns InvalidUtf8.
C10_Utf8Boundary ==
    (ctor.kind = "Utf8" /\ IsScalar(input) /\ ctor.required >= 1
     /\ ctor.required <= Len(input)) =>
        /\ last.op = "bytes_received" =>
             /\ last.res.tag = "Ok"
             /\ ctor.required = Len(input) => last.res.val = Len(last.chunk)
        /\ (last.op = "end" /\ offered = Len(input) /\ ctor.required = Len(input)) =>
               last.res = Ok(input)
        /\ (last.op = "end" /\ offered >= ctor.required /\ ctor.required < Len(input)) =>
               /\ last.res.tag = "Err"
               /\ last.res.err.type = "InvalidUtf8"

\* a 4-byte scalar fed in pieces, the last of them a single byte, and returned
C10_Witness ==
    /\ ctor.kind = "Utf8"
    /\ ctor.required = 4
    /\ IsScalar(input)
    /\ Len(input) = 4
    /\ hist.split
    /\ Len(last.pre.buf) = 4
    /\ last.pre.valid_up_to = 4
    /\ last.op = "end"
    /\ last.res = Ok(input)

\* C11: in a Utf8StringDecoder whose decode_chunk calls have all returned Ok,
\* buf[..valid_up_to] is valid UTF-8 and valid_up_to is the length of buf
\* exactly when the whole of buf is valid UTF-8; so an end that returns Ok
\* returns a well-formed string, the first `required` bytes offered.
C11_ValidUpToMeansValid ==
    (ctor.kind = "Utf8" /\ Proper /\ status \in {"active", "ended"}) =>
        /\ decoder.valid_up_to <= Len(decoder.buf)
        /\ FromUtf8(SliceTo(decoder.buf, decoder.valid_up_to)).tag = "Ok"
        /\ decoder.valid_up_to = Len(decoder.buf) <=> FromUtf8(decoder.buf).tag = "Ok"
        /\ (last.op = "end" /\ last.res.tag = "Ok") =>
               /\ FromUtf8(last.res.val).tag = "Ok"
               /\ last.res.val = SliceTo(input, ctor.required)

\* a decoder that was handed a 3-byte sequence byte by byte, then an ASCII
\* byte, and returned the string
C11_Witness ==
    /\ ctor.kind = "Utf8"
    /\ ctor.required = 4
    /\ Len(input) = 4
    /\ Utf8CharWidth(input[1]) = 3
    /\ last.op = "end"
    /\ last.res = Ok(input)
    /\ hist.split
    /\ last.before.split

\* the chunks offered to a decoder to see whether it takes a byte
ProbeChunks ==
    {<<>>} \cup {<<b>> : b \in IF ctor \in Utf8Decoders THEN Utf8Bytes ELSE LenBytes}

\* a further chunk-consuming call consumes no byte of any chunk
AtEnd(d) == \A c \in ProbeChunks : Got(BytesReceived(d, c)) = 0

\* a further chunk-consuming call consumes a byte of some chunk
TakesByte(d) == \E c \in ProbeChunks \ {<<>>} : Got(BytesReceived(d, c)) > 0

\* every further chunk-consuming call succeeds and consumes nothing
Finished(d) == \A c \in ProbeChunks : BytesReceived(d, c).res = Ok(0)

\* a Chain whose first stage holds all its bytes, which are not a string
Doomed(d) ==
    /\ d.kind = "Chain"
    /\ d.state.tag = "First"
    /\ LeafMinRequiredBytes(d.state.first) = 0
    /\ LeafEnd(d.state.first).tag = "Err"

Needed(d) ==
    IF d.kind = "Chain" /\ d.state.tag = "First"
    THEN LeafMinRequiredBytes(d.state.first) + LeafMinRequiredBytes(d.state.second)
    ELSE MinRequiredBytes(d)

\* a successful chunk call of a KnownMinLenDecoder has just returned
MinLenStep ==
    /\ KnownMinLen(ctor)
    /\ Proper
    /\ status = "active"
    /\ last.op = "bytes_received"

\* C13 as stated: after a successful chunk call min_required_bytes() is at
\* most its value before the call, and it has decreased by exactly the number
\* of bytes the call consumed.
C13_MinRequiredDecreasesByConsumed ==
    MinLenStep =>
        /\ MinRequiredBytes(decoder) <= MinRequiredBytes(last.pre)
        /\ MinRequiredBytes(decoder) = MinRequiredBytes(last.pre) - last.res.val

\* C13: after a successful chunk call of a KnownMinLenDecoder, a Chain across
\* its switch included, min_required_bytes() is at most its value before the
\* call and has decreased by at most the bytes consumed; it has decreased by
\* exactly the bytes consumed when the stages of a Chain needed no more than
\* usize::MAX bytes together before the call.
C13_MinRequiredMonotone ==
    MinLenStep =>
        /\ MinRequiredBytes(decoder) <= MinRequiredBytes(last.pre)
        /\ MinRequiredBytes(decoder) >= MinRequiredBytes(last.pre) - last.res.val
        /\ Needed(decoder) = Needed(last.pre) - last.res.val
        /\ Needed(last.pre) <= UsizeMax =>
               MinRequiredBytes(decoder) = MinRequiredBytes(last.pre) - last.res.val

\* a Chain call that took the last byte of the first stage and one of the two
\* bytes of the second
C13_Witness ==
    /\ MinLenStep
    /\ ctor.kind = "Chain"
    /\ last.pre.state.tag = "First"
    /\ decoder.state.tag = "Second"
    /\ MinRequiredBytes(last.pre) = 3
    /\ last.res = Ok(2)
    /\ MinRequiredBytes(decoder) = 1

(***************************************************************************)
(* Properties of the encoders.                                              *)
(***************************************************************************)
\* a caller that calls encoded_chunk and next itself
Plain == estatus = "active" /\ ~tracked

\* C14: in every state an encoder reaches from construction by calls to next,
\* if encoded_chunk() is empty then next() returns false, and no state after
\* one with an empty chunk exposes a non-empty chunk.
C14_EmptyChunkMeansFinished ==
    Plain =>
        /\ EncodedChunk(enc) = <<>> => ~EncoderNext(enc).more
        /\ ehist.sawEmpty => EncodedChunk(enc) = <<>>

\* C15: once next() has returned false, every later next() returns false, and
\* encoded_chunk() stays what it was after the first false.
C15_NextIdempotentAfterFalse ==
    (Plain /\ ehist.ended) =>
        /\ ~EncoderNext(enc).more
        /\ EncodedChunk(enc) = ehist.endChunk
        /\ ~(elast.op = "next" /\ elast.res)

Bytes(c) == WriteToVec(Build(c), <<>>)

\* C17: write_to_vec of a.chain(b) writes the bytes write_to_vec writes for a
\* followed by those it writes for b; and when the chunk of a is empty at
\* construction the Chain holds no first encoder and its encoded_chunk and
\* next are those of b from the first call.
C17_ChainOutput ==
    ector.op = "chain" =>
        /\ estatus = "written" => out = Bytes(ector.a) \o Bytes(ector.b)
        /\ (Plain /\ EncodedChunk(Build(ector.a)) = <<>>) =>
               /\ enc.first = <<>>
               /\ EncodedChunk(enc) = EncodedChunk(enc.second)
               /\ EncoderNext(enc).more = EncoderNext(enc.second).more
               /\ elast.op = "new" => enc.second = Build(ector.b)
               /\ elast.op = "next" =>
                      /\ enc.second = EncoderNext(elast.pre.second).enc
                      /\ elast.res = EncoderNext(elast.pre.second).more

\* write_to_vec of a Chain of a Chain and an IterEncoder with an empty item
\* wrote four bytes
C17_Witness ==
    /\ ector.op = "chain"
    /\ ector.a.op = "chain"
    /\ ector.b.op = "iter"
    /\ estatus = "written"
    /\ out = <<1, 2, 3, 1>>
    /\ Len(ector.b.items) = 2

\* C18: write_to_vec of a.then(|| b) writes the bytes write_to_vec writes for a
\* followed by those it writes for b, which are the bytes it writes for
\* a.chain(b).
C18_ThenOutput ==
    (ector.op = "then" /\ estatus = "written") =>
        /\ out = Bytes(ector.a) \o Bytes(ector.b)
        /\ out = Bytes(NewChain(ector.a, ector.b))

RECURSIVE Concat(_)
\* the items' bytes one after the other
Concat(items) == IF items = <<>> THEN <<>> ELSE Head(items) \o Concat(Tail(items))

\* C19: write_to_vec of an IterEncoder writes the concatenation of the items'
\* bytes in order, and no chunk it shows before the end is empty: its first
\* chunk is empty only if every item is empty, and the chunk after a next()
\* that returned true is not empty.
C19_IterOutput ==
    ector.op = "iter" =>
        /\ estatus = "written" => out = Concat(ector.items)
        /\ (Plain /\ elast.op = "new") =>
               (EncodedChunk(enc) = <<>> <=> Concat(ector.items) = <<>>)
        /\ (Plain /\ elast.op = "next" /\ elast.res) => EncodedChunk(enc) # <<>>

\* write_to_vec of an IterEncoder over a first item, an empty one and a last
\* one
C19_Witness ==
    /\ ector.op = "iter"
    /\ Len(ector.items) = 3
    /\ ector.items[2] = <<>>
    /\ estatus = "written"
    /\ out = <<2, 3, 1>>

\* C20: for an encoder wrapped by track_position and consume(amount) calls
\* with 1 <= amount <= len(encoded_chunk()), the consumed prefixes make up a
\* prefix of what write_to_vec writes for the encoder, encoded_chunk() does
\* not panic, and once encoded_chunk() is empty they are all of it.
C20_ResumablePartialWrites ==
    (tracked /\ ~ehist.zero) =>
        /\ out = SliceTo(Bytes(ector), Len(out))
        /\ TrackerEncodedChunk(enc).tag = "Ok"
        /\ TrackerEncodedChunk(enc) = Ok(<<>>) => out = Bytes(ector)

\* C21: once a consume has taken the last byte of the chunk and the encoder's
\* next() has returned false, every encoded_chunk() of the tracker returns the
\* empty slice without panicking, and consume(0) leaves the tracker as it is.
C21_TrackerEndPermanent ==
    (tracked /\ ehist.ended) =>
        /\ TrackerEncodedChunk(enc) = Ok(<<>>)
        /\ estatus = "active"
        /\ Consume(enc, 0) = enc

(***************************************************************************)
(* Properties of the round trips                                            *)
(***************************************************************************)
\* the value an encoder expression was given
EncodedValue(c) == IF c.op = "int" THEN c.value ELSE c.bytes

\* what the decoder is to return for the bytes of ector
Expected ==
    CASE ctor.kind = "Chain" -> <<EncodedValue(ector.a), EncodedValue(ector.b)>>
      [] ctor.kind = "Then" -> EncodedValue(ector.b)
      [] OTHER -> EncodedValue(ector)

\* the bytes were written and the decoder was never called after an error
Written == estatus = "written" /\ ~misused

\* C22: the bytes write_to_vec writes for the Chain of the primitive encoders
\* of a and b, offered in any split to the matching Chain decoder (to the
\* matching Then decoder when a is the length of b), are consumed entirely by
\* calls that return Ok, and end, called after all of them, returns Ok((a, b))
\* (Ok(b) for Then).
C22_PairRoundTrip ==
    (Written /\ ctor.kind \in {"Chain", "Then"}) =>
        /\ status \in {"active", "ended"}
        /\ consumed = offered
        /\ (status = "ended" /\ offered = Len(input)) => last.res = Ok(Expected)

C22_Witness ==
    /\ Written
    /\ ctor.kind = "Then"
    /\ status = "ended"
    /\ offered = Len(input)
    /\ hist.split
    /\ Len(input) = 1 + MaxN
    /\ last.res = Ok(Expected)

\* the number whose digits in base 256 are bytes, most significant first
RECURSIVE BigEndianValue(_)
BigEndianValue(bytes) ==
    IF bytes = <<>> THEN 0
    ELSE bytes[1] * 256 ^ (Len(bytes) - 1) + BigEndianValue(Tail(bytes))

Reversed(bytes) == [i \in 1..Len(bytes) |-> bytes[Len(bytes) + 1 - i]]

\* C23: the single chunk of IntEncoder::new_be(x) is x's bytes, most
\* significant first, that of new_le(x) the same bytes reversed, and next()
\* returns false; the IntDecoder of the same byte order, offered those bytes in
\* any split, returns Ok(x) at end, and until end it holds the bytes received,
\* not an integer.
C23_IntByteOrder ==
    (ector.op = "int" /\ ctor.kind = "Int") =>
        /\ Len(EncodedChunk(enc)) = ector.size
        /\ BigEndianValue(IF ector.endian = "BE" THEN EncodedChunk(enc)
                          ELSE Reversed(EncodedChunk(enc))) = ector.value
        /\ ~EncoderNext(enc).more
        /\ estatus = "written" => out = EncodedChunk(enc)
        /\ Written =>
            /\ status \in {"active", "ended"}
            /\ consumed = offered
            /\ decoder.inner.buf = [i \in 1..ector.size |-> IF i <= offered THEN input[i] ELSE Uninit]
            /\ (status = "ended" /\ offered = Len(input)) => last.res = Ok(ector.value)

C23_Witness ==
    /\ ector = NewInt(1029, 2, "LE")
    /\ ctor = IntNew(2, "LE")
    /\ Written
    /\ input = <<5, 4>>
    /\ hist.split
    /\ status = "ended"
    /\ last.res = Ok(1029)

(***************************************************************************)
(* Properties of write_to_slice                                             *)
(***************************************************************************)
\* write_to_slice has returned
Sliced == elast.op = "write_to_slice"

\* C24: write_to_slice into a buffer of L bytes returns Ok if and only if the
\* encoder's whole output, T bytes, is at most L bytes long; on Ok the first T
\* bytes of the buffer are that output and the cursor has advanced by T bytes;
\* otherwise it returns a BufferOverflow error.
C24_SliceOkIffFits ==
    Sliced =>
        /\ elast.res = OkUnit <=> Len(Bytes(ector)) <= elast.len
        /\ elast.res = OkUnit =>
            /\ out = Bytes(ector)
            /\ elast.len - elast.room = Len(Bytes(ector))
        /\ elast.res # OkUnit =>
            /\ elast.res.tag = "Err"
            /\ elast.res.err.type = "BufferOverflow"

C24_Witness ==
    /\ Sliced
    /\ ector.op = "chain"
    /\ elast.res = OkUnit
    /\ elast.len = MaxSlice
    /\ Len(out) = MaxSlice
    /\ EncodedChunk(elast.pre) # out

\* C25: the BufferOverflow error of write_to_slice into a buffer of L bytes, by
\* an encoder whose whole output is T > L bytes, has bytes_past_end = T - L,
\* whether the output is one chunk or several.
C25_OverflowAmount ==
    (Sliced /\ Len(Bytes(ector)) > elast.len) =>
        /\ elast.res.tag = "Err"
        /\ elast.res.err = BufferOverflow(Len(Bytes(ector)) - elast.len)

(***************************************************************************)
(* Properties of the states of the decoding combinators                     *)
(***************************************************************************)
\* the last call was a chunk-consuming call on a combinator in its first phase
InFirstPhase == last.op = "bytes_received" /\ last.pre.state.tag = "First"

\* what the first stage returned for the chunk of the last call
FirstChunk == LeafDecodeChunk(last.pre.state.first, last.chunk)

\* the first stage left bytes of the chunk over and was ended
FirstEnded == FirstChunk.res.tag = "Ok" /\ FirstChunk.rest # <<>>

\* the calls the last call made on the second stage
SecondCalls == {i \in DOMAIN last.calls : last.calls[i].stage = 2}

\* every call on d panics
AllPanic(d) ==
    /\ \A c \in ProbeChunks : BytesReceived(d, c).res.tag = "Panic"
    /\ End(d).res.tag = "Panic"

\* C26: when the first stage of a Chain leaves bytes of the chunk over and its
\* end fails, decode_chunk returns that error as Left, the Chain is Errored,
\* the second stage was given no byte, and every later decode_chunk, end and
\* min_required_bytes panics.
C26_ChainFailedSwitch ==
    ctor.kind = "Chain" =>
        /\ (InFirstPhase /\ FirstEnded /\ LeafEnd(FirstChunk.dec).tag = "Err") =>
            /\ last.res = Err(Left(LeafEnd(FirstChunk.dec).err))
            /\ decoder.state = Errored
            /\ SecondCalls = {}
            /\ last.pre.state.second = ctor.state.second
            /\ hist.secondFrom = 0
        /\ decoder.state = Errored =>
            /\ AllPanic(decoder)
            /\ MinRequiredBytes(decoder).tag = "Panic"
        /\ (last.op # "new" /\ last.pre.state = Errored) =>
            /\ last.res.tag = "Panic"
            /\ status = "panicked"

C26_Witness ==
    /\ ctor.kind = "Chain"
    /\ result.tag = "Err"
    /\ result.err.type = "Left"
    /\ last.op = "bytes_received"
    /\ last.pre.state = Errored
    /\ status = "panicked"

\* the stage call, or the call of f, that failed inside the last call
FailedCall == last.calls[Len(last.calls)]

\* C27: an error returned by ThenTry's decode_chunk comes from the first
\* stage's decode_chunk, the first stage's end, the continuation f or the
\* second stage's decode_chunk; in each case it is returned as the one error
\* type E (holding the stage's error converted) and the state left is Errored.
C27_ThenTryErrors ==
    (ctor.kind = "ThenTry" /\ last.op = "bytes_received" /\ last.res.tag = "Err") =>
        /\ last.res.err.type = "E"
        /\ decoder.state = Errored
        /\ last.calls # <<>>
        /\ ~FailedCall.ok
        /\ \/ /\ InFirstPhase
              /\ FailedCall = Call(1, "decode_chunk", 0, Len(last.chunk),
                                   Len(last.chunk) - Len(FirstChunk.rest), FALSE)
              /\ last.res.err = IntoE(FirstChunk.res.err)
           \/ /\ InFirstPhase
              /\ FirstEnded
              /\ FailedCall = EndCallOf(1, LeafEnd(FirstChunk.dec))
              /\ last.res.err = IntoE(LeafEnd(FirstChunk.dec).err)
           \/ /\ InFirstPhase
              /\ FirstEnded
              /\ FailedCall.op = "fun"
              /\ last.res = ApplyTryFun(last.pre.state.fun, LeafEnd(FirstChunk.dec).val)
           \/ /\ FailedCall.stage = 2
              /\ FailedCall.op = "decode_chunk"
              /\ last.res.err.source.type \in {"InvalidUtf8", "Utf8UnexpectedEnd"}

C27_Witness ==
    /\ ctor.kind = "ThenTry"
    /\ last.op = "bytes_received"
    /\ last.res.tag = "Err"
    /\ FailedCall.op = "fun"
    /\ hist.split
    /\ decoder.state = Errored

\* C28: after a chunk-consuming call on a Chain, Then or ThenTry has returned,
\* with Ok or with Err, the state is First, Second or Errored, never Panicked.
C28_PanickedNeverLeftBehind ==
    (/\ ctor.kind \in {"Chain", "Then", "ThenTry"}
     /\ last.op = "bytes_received"
     /\ last.res.tag \in {"Ok", "Err"}) =>
        decoder.state.tag \in {"First", "Second", "Errored"}

\* the phase of a combinator
Phase(d) == d.state.tag

Sinks == {"Errored", "Panicked"}

\* the phase moves forward, and no call returns from a sink
PhasesForward ==
    /\ Phase(last.pre) = "Second" => Phase(decoder) # "First"
    /\ Phase(last.pre) \in Sinks =>
        /\ Phase(decoder) \in Sinks
        /\ last.res.tag = "Panic"

\* C29, as stated: the state of a Chain, Then or ThenTry goes from First to
\* Second at most once and never back, and a call on an Errored or Panicked
\* combinator does not return normally and leaves the state as it is.
C29_PhasesForwardSinksUnchanged ==
    (ctor.kind \in {"Chain", "Then", "ThenTry"} /\ last.op # "new") =>
        /\ PhasesForward
        /\ Phase(last.pre) \in Sinks => decoder = last.pre

\* C29, amended: the state goes from First to Second at most once and never
\* back; a call on an Errored or Panicked combinator panics and leaves it
\* Errored or Panicked: a Chain as it was, a Then or ThenTry Panicked after a
\* chunk-consuming call (also when it was Errored).
C29_PhasesForwardSinksClosed ==
    (ctor.kind \in {"Chain", "Then", "ThenTry"} /\ last.op # "new") =>
        /\ PhasesForward
        /\ Phase(last.pre) \in Sinks =>
            Phase(decoder) = IF ctor.kind = "Chain" \/ last.op = "end" THEN Phase(last.pre)
                             ELSE "Panicked"

C29_Witness ==
    /\ ctor.kind = "ThenTry"
    /\ last.op = "bytes_received"
    /\ Phase(last.pre) = "Errored"
    /\ Phase(decoder) = "Panicked"
    /\ last.res.tag = "Panic"

\* the last call invoked f
FunCalled == \E i \in DOMAIN last.calls : last.calls[i].op = "fun"

\* what the first stage's end returned in the last call
FirstValue ==
    IF last.op = "end" THEN LeafEnd(last.pre.state.first) ELSE LeafEnd(FirstChunk.dec)

\* what f returns for the value of the first stage: the decoder for as many
\* bytes as the value tells
Made ==
    IF ctor.kind = "Then"
    THEN Ok(MakeSecond(last.pre.state.fun, FunLen(last.pre.state.fun, FirstValue.val)))
    ELSE ApplyTryFun(last.pre.state.fun, FirstValue.val)

\* C30: in every run of a Then or ThenTry decoder f is invoked at most once,
\* in a call that found the decoder in its first phase, right after the first
\* stage's end returned Ok and with the value it returned; a run whose end
\* returns Ok has invoked f exactly once, at the switch or inside end.
C30_ContinuationOnce ==
    ctor.kind \in {"Then", "ThenTry"} =>
        /\ hist.funCalls <= 1
        /\ (last.op # "new" /\ FunCalled) =>
            /\ Phase(last.pre) = "First"
            /\ hist.funCalls = 1
            /\ last.before.funCalls = 0
            /\ FirstValue.tag = "Ok"
            /\ \E i \in DOMAIN last.calls :
                /\ last.calls[i] = EndCallOf(1, FirstValue)
                /\ last.calls[i + 1] = FunCall(Made)
                /\ \A j \in DOMAIN last.calls : j # i + 1 => last.calls[j].op # "fun"
            /\ (last.op = "bytes_received" /\ Made.tag = "Ok"
                /\ Phase(decoder) = "Second") =>
                    /\ decoder.state.second.required = Made.val.required
                    /\ decoder.state.second.kind = Made.val.kind
            /\ (last.op = "end" /\ Made.tag = "Ok" /\ last.res.tag = "Ok") =>
                    last.res = LeafEnd(Made.val)
        /\ (status = "ended" /\ last.res.tag = "Ok") => hist.funCalls = 1

C30_Witness ==
    /\ ctor.kind = "Then"
    /\ status = "ended"
    /\ last.res.tag = "Ok"
    /\ Phase(last.pre) = "First"
    /\ FunCalled
    /\ offered > 0

(***************************************************************************)
(* Properties of Chain::end                                                 *)
(***************************************************************************)
\* the last call was end on a Chain in the given phase
ChainEnded(phase) == ctor.kind = "Chain" /\ last.op = "end" /\ Phase(last.pre) = phase

\* C31: end of a Chain in its first phase ends A and then B: A's error is
\* returned as Left (B is not ended), B's error as Right only when A's end
\* returned Ok; in the second phase only B is ended and the value is the
\* stored value of A paired with B's; an error is Left exactly when it is A's.
C31_ChainEndOrder ==
    /\ ChainEnded("First") =>
        /\ LeafEnd(last.pre.state.first).tag = "Err" =>
            /\ last.res = Err(Left(LeafEnd(last.pre.state.first).err))
            /\ last.calls = <<EndCallOf(1, LeafEnd(last.pre.state.first))>>
        /\ (LeafEnd(last.pre.state.first).tag = "Ok"
            /\ LeafEnd(last.pre.state.second).tag = "Err") =>
            /\ last.res = Err(Right(LeafEnd(last.pre.state.second).err))
            /\ Len(last.calls) = 2
            /\ last.calls[1].stage = 1
            /\ last.calls[2].stage = 2
        /\ (LeafEnd(last.pre.state.first).tag = "Ok"
            /\ LeafEnd(last.pre.state.second).tag = "Ok") =>
            last.res = Ok(<<LeafEnd(last.pre.state.first).val,
                            LeafEnd(last.pre.state.second).val>>)
    /\ ChainEnded("Second") =>
        /\ last.calls = <<EndCallOf(2, LeafEnd(last.pre.state.second))>>
        /\ last.res = IF LeafEnd(last.pre.state.second).tag = "Err"
                      THEN Err(Right(LeafEnd(last.pre.state.second).err))
                      ELSE Ok(<<last.pre.state.first_val, LeafEnd(last.pre.state.second).val>>)
    /\ (ctor.kind = "Chain" /\ last.op = "end" /\ last.res.tag = "Err") =>
        /\ last.res.err.type \in {"Left", "Right"}
        /\ last.res.err.type = "Left" <=> FailedCall.stage = 1

C31_Witness ==
    /\ ChainEnded("First")
    /\ LeafEnd(last.pre.state.first).tag = "Err"
    /\ LeafEnd(last.pre.state.second).tag = "Err"
    /\ offered > 0
    /\ last.res.err.type = "Left"

(***************************************************************************)
(* Properties of the state of Utf8StringDecoder                             *)
(***************************************************************************)
\* a Utf8StringDecoder all of whose calls so far returned Ok
Utf8Proper == ctor.kind = "Utf8" /\ Proper /\ status = "active"

\* the bytes of the buffer that are not validated
Unvalidated(d) == SliceFrom(d.buf, d.valid_up_to)

\* continuation bytes that complete every sequence begun
Completions == SeqsUpTo({128, 159, 160}, 3)

\* v is the beginning, and not the whole, of a multi-byte sequence that more
\* bytes can complete
ProperPrefix(v) ==
    /\ Len(v) \in 1..3
    /\ Utf8CharWidth(v[1]) > Len(v)
    /\ \E more \in Completions :
        /\ Len(v) + Len(more) = Utf8CharWidth(v[1])
        /\ FromUtf8(v \o more).tag = "Ok"

\* C32: in every state of a Utf8StringDecoder reached through decode_chunk
\* calls that returned Ok, valid_up_to <= len(buf) <= required, the bytes
\* buf[..valid_up_to] are valid UTF-8, and the bytes buf[valid_up_to..] are
\* either none or the first 1 to 3 bytes of a multi-byte sequence that further
\* bytes can complete.
C32_Utf8StateInvariant ==
    Utf8Proper =>
        /\ decoder.valid_up_to <= Len(decoder.buf)
        /\ Len(decoder.buf) <= decoder.required
        /\ FromUtf8(SliceTo(decoder.buf, decoder.valid_up_to)).tag = "Ok"
        /\ Unvalidated(decoder) = <<>> \/ ProperPrefix(Unvalidated(decoder))

C32_Witness ==
    /\ Utf8Proper
    /\ decoder.required = MaxRequired
    /\ decoder.valid_up_to = 1
    /\ Len(Unvalidated(decoder)) = 3
    /\ hist.split

\* the last call was the first decode_chunk of a Utf8StringDecoder to return
\* an error
Utf8Failed ==
    /\ ctor.kind = "Utf8"
    /\ Proper
    /\ last.op = "bytes_received"
    /\ last.res.tag = "Err"

\* C33: a decode_chunk of a Utf8StringDecoder that returns InvalidUtf8, with an
\* unvalidated tail in the buffer or without, has copied no byte of its chunk:
\* buf, valid_up_to, min_required_bytes and the caller's cursor are as before.
C33_Utf8FailureChangesNothing ==
    Utf8Failed =>
        /\ last.res.err.type = "InvalidUtf8"
        /\ decoder.buf = last.pre.buf
        /\ decoder.valid_up_to = last.pre.valid_up_to
        /\ MinRequiredBytes(decoder) = MinRequiredBytes(last.pre)
        /\ consumed + Len(last.chunk) = offered

\* C34: decode_chunk of a Utf8StringDecoder returns InvalidUtf8 in the call
\* whose chunk, cut to the bytes still required, puts into the accepted bytes a
\* sequence that no further byte can make valid; end returns InvalidUtf8 only
\* when the required length is reached and the buffer ends in an incomplete
\* sequence, and UnexpectedEnd only when fewer than required bytes are held.
C34_Utf8ErrorsEarly ==
    (ctor.kind = "Utf8" /\ Proper) =>
        /\ last.op = "bytes_received" =>
            (last.res.tag = "Err" <=> ~Completable(Accepted(last.pre, last.chunk)))
        /\ (last.op = "bytes_received" /\ last.res.tag = "Err") =>
            /\ Completable(last.pre.buf)
            /\ last.res.err.type = "InvalidUtf8"
        /\ (last.op = "end" /\ last.res.tag = "Err" /\ last.res.err.type = "InvalidUtf8") =>
            /\ Len(last.pre.buf) = last.pre.required
            /\ ProperPrefix(Unvalidated(last.pre))
            /\ last.res.err.error_len = <<>>
        /\ (last.op = "end" /\ last.res.tag = "Err" /\ last.res.err.type # "InvalidUtf8") =>
            /\ last.res.err.type = "Utf8UnexpectedEnd"
            /\ Len(last.pre.buf) < last.pre.required
        /\ last.op = "end" => last.res.tag # "Panic"

C34_Witness ==
    /\ ctor.kind = "Utf8"
    /\ Proper
    /\ last.op = "end"
    /\ last.res.tag = "Err"
    /\ last.res.err.type = "InvalidUtf8"
    /\ Len(last.pre.buf) = 2
    /\ last.pre.valid_up_to = 1
    /\ hist.split

(***************************************************************************)
(* Lazy construction in the Then encoder.  A Then in state First holds the  *)
(* constructor it has not called; a Then in state Second holds the encoder  *)
(* the constructor returned and no constructor.                             *)
(***************************************************************************)
\* the caller drives a.then(f) itself
PlainThen == ector.op = "then" /\ ~tracked /\ enc.kind = "Then"

\* f has been called and has returned this encoder
Constructed(e) == e.state = "Second"

\* the last call was a next() on a Then whose f had not been called
NextInFirst == PlainThen /\ elast.op = "next" /\ elast.pre.state = "First"

\* the first encoder's next() inside the last next()
FirstNext == EncoderNext(elast.pre.encoder)

\* C35: f is not called by Then::new, nor by encoded_chunk, nor by a next() in
\* which the first encoder's next() returns true; it is called in the next()
\* in which the first encoder's next() returns false, which leaves the Then
\* holding the encoder f returned; and it is never called again, as a Then in
\* state Second stays in state Second, whatever next() returns
C35_LazyConstruction ==
    PlainThen =>
        /\ elast.op = "new" => ~Constructed(enc) /\ enc.fun = Build(ector.b)
        /\ elast.op = "encoded_chunk" => enc = elast.pre
        /\ NextInFirst /\ FirstNext.more =>
               /\ ~Constructed(enc)
               /\ enc.fun = elast.pre.fun
               /\ enc.encoder = FirstNext.enc
        /\ NextInFirst /\ ~FirstNext.more =>
               /\ Constructed(enc)
               /\ enc.encoder = Build(ector.b)
        /\ elast.op = "next" /\ Constructed(elast.pre) =>
               /\ Constructed(enc)
               /\ enc.encoder = EncoderNext(elast.pre.encoder).enc

\* next() was called again on a Then that had ended, after f was called
C35_Witness ==
    /\ PlainThen
    /\ elast.op = "next"
    /\ Constructed(elast.pre)
    /\ ~elast.res
    /\ ehist.nexts >= 4
    /\ EncodedChunk(Build(ector.a)) # <<>>

(***************************************************************************)
(* What a true from next() announces, for the combinators over leaf         *)
(* encoders.                                                                *)
(***************************************************************************)
\* BytesEncoder and IntEncoder
IsLeafEncoder(c) == c.op \in {"bytes", "int"}

\* a chain or a then of two leaf encoders, or an IterEncoder, which is over
\* BytesEncoders
OverLeaves ==
    \/ ector.op \in {"chain", "then"} /\ IsLeafEncoder(ector.a) /\ IsLeafEncoder(ector.b)
    \/ ector.op = "iter"

\* the last call was a next() in which the first encoder of the Chain or of
\* the Then was exhausted
FirstExhausted ==
    /\ elast.op = "next"
    /\ \/ /\ elast.pre.kind = "Chain"
          /\ elast.pre.first # <<>>
          /\ ~EncoderNext(elast.pre.first[1]).more
       \/ /\ elast.pre.kind = "Then"
          /\ elast.pre.state = "First"
          /\ ~EncoderNext(elast.pre.encoder).more

\* C36: over leaf encoders, after a next() that returned true the chunk is not
\* empty; the next() that exhausts the first encoder of a Chain or Then
\* returns true exactly when the first chunk of the second encoder is not
\* empty; an IterEncoder in state Encoding has a non-empty chunk and in state
\* Done an empty one
C36_TrueAnnouncesChunk ==
    Plain /\ OverLeaves =>
        /\ elast.op = "next" /\ elast.res => EncodedChunk(enc) # <<>>
        /\ FirstExhausted =>
               /\ elast.res <=> EncodedChunk(Build(ector.b)) # <<>>
               /\ EncodedChunk(enc) = EncodedChunk(Build(ector.b))
        /\ enc.kind = "Iter" =>
               /\ enc.state = "Encoding" => EncodedChunk(enc) # <<>>
               /\ enc.state = "Done" => EncodedChunk(enc) = <<>>

\* a Then over two leaf encoders switched to a second encoder that has bytes
C36_Witness ==
    /\ Plain
    /\ OverLeaves
    /\ FirstExhausted
    /\ elast.pre.kind = "Then"
    /\ elast.res
    /\ EncodedChunk(enc) # <<>>

(***************************************************************************)
(* The offset of the position tracker                                       *)
(***************************************************************************)
\* the last call was consume(amount) on the tracker
Consumed == tracked /\ elast.op = "consume"

\* the consume brought pos to the length of the chunk
ReachedChunkEnd == elast.pre.pos + elast.res >= Len(EncodedChunk(elast.pre.encoder))

\* C37: the offset of a tracker is at most the length of its encoder's current
\* chunk; a consume calls the encoder's next() only when it brings pos to the
\* length of the chunk, and pos is then 0 exactly when that next() returned
\* true; a consume of fewer bytes than remain changes only pos
C37_TrackerOffsetInRange ==
    tracked =>
        /\ enc.pos <= Len(EncodedChunk(enc.encoder))
        /\ Consumed /\ ReachedChunkEnd =>
               /\ enc.encoder = EncoderNext(elast.pre.encoder).enc
               /\ EncoderNext(elast.pre.encoder).more => enc.pos = 0
               /\ ~EncoderNext(elast.pre.encoder).more => enc.pos = elast.pre.pos + elast.res
        /\ Consumed /\ ~ReachedChunkEnd =>
               /\ enc.encoder = elast.pre.encoder
               /\ enc.pos = elast.pre.pos + elast.res

(***************************************************************************)
(* KnownMinLenDecoder::sync_decode_with_zeroed_buffer: lib.rs.  The reader  *)
(* reads the input; each turn of the while loop is a step, the reader's     *)
(* answer being its input.                                                  *)
(***************************************************************************)
\* the largest BUF_LEN
MaxBufLen == 3

\* KnownMinLenDecoder::is_at_end
IsAtEnd(d) == MinRequiredBytes(d) = 0

\* a clamp_buffer that returns the whole buffer
ClampBufferWhole(d, buffer_len) == buffer_len

\* the length of the slice clamp_buffer returns for a buffer of buffer_len
ClampBuffer(d, buffer_len) == Min(buffer_len, MinRequiredBytes(d))

\* map_err(ReadError::Decode)
MapErrDecode(res) ==
    IF res.tag = "Err" THEN Err([read_error |-> "Decode", err |-> res.err]) ELSE res

\* map_err(ReadError::Read)
MapErrRead(res) ==
    IF res.tag = "Err" THEN Err([read_error |-> "Read", err |-> res.err]) ELSE res

\* the decoders sync_decode_with_zeroed_buffer is defined for
KnownMinLenDecoders == {d \in Decoders : KnownMinLen(d)}

\* let mut buf = [0u8; BUF_LEN]; hist holds BUF_LEN
SyncInit ==
    /\ ctor \in KnownMinLenDecoders
    /\ input \in InputsOf(ctor)
    /\ offered = 0
    /\ decoder = ctor
    /\ consumed = 0
    /\ status = "active"
    /\ misused = FALSE
    /\ result = NoResult
    /\ hist \in {[buf_len |-> b] : b \in 0..MaxBufLen}
    /\ last = [op |-> "new", pre |-> ctor]
    /\ EncIdle

\* self.end().map_err(ReadError::Decode), after the loop was left with the
\* reader asked for request bytes (asked), or not asked at all
SyncEnd(asked, request) ==
    /\ status' = "ended"
    /\ result' = MapErrDecode(End(decoder).res)
    /\ last' = [op |-> "end", pre |-> decoder, asked |-> asked, request |-> request,
                chunk |-> <<>>, res |-> End(decoder).res]
    /\ UNCHANGED <<decoder, offered, consumed>>

\* self.bytes_received(&buf[..bytes_read]).map_err(ReadError::Decode)? returned r
SyncReceived(request, chunk, r) ==
    /\ decoder' = r.dec
    /\ offered' = offered + Len(chunk)
    /\ consumed' = IF r.res.tag = "Ok" THEN consumed + r.res.val ELSE consumed
    /\ status' = CASE r.res.tag = "Ok" -> "active"
                   [] r.res.tag = "Err" -> "failed"
                   [] OTHER -> "panicked"
    /\ result' = IF r.res.tag = "Ok" THEN result ELSE MapErrDecode(r.res)
    /\ last' = [op |-> "bytes_received", pre |-> decoder, asked |-> TRUE,
                request |-> request, chunk |-> chunk, res |-> r.res]

\* the loop after reader(buf) returned Ok(bytes_read) for a buf of request bytes
SyncAfterRead(request, bytes_read) ==
    IF bytes_read = 0 THEN SyncEnd(TRUE, request)
    ELSE SyncReceived(request, SubSeq(input, offered + 1, offered + bytes_read),
                      BytesReceived(decoder, SubSeq(input, offered + 1, offered + bytes_read)))

\* the loop condition is false: the decoder is at its end
SyncAtEnd ==
    /\ status = "active"
    /\ IsAtEnd(decoder)
    /\ SyncEnd(FALSE, 0)
    /\ UNCHANGED <<ctor, input, misused, hist>>
    /\ UNCHANGED encVars

\* a turn of the loop in which the reader returns Ok(bytes_read), having put
\* the next bytes_read bytes of the input into the buffer it was given
SyncRead(bytes_read) ==
    /\ status = "active"
    /\ ~IsAtEnd(decoder)
    /\ bytes_read <= ClampBuffer(decoder, hist.buf_len)
    /\ bytes_read <= Len(input) - offered
    /\ SyncAfterRead(ClampBuffer(decoder, hist.buf_len), bytes_read)
    /\ UNCHANGED <<ctor, input, misused, hist>>
    /\ UNCHANGED encVars

\* a turn of the loop in which the reader returns Err
SyncReadFails ==
    /\ status = "active"
    /\ ~IsAtEnd(decoder)
    /\ status' = "failed"
    /\ result' = MapErrRead(Err("reader"))
    /\ last' = [op |-> "read", pre |-> decoder, asked |-> TRUE,
                request |-> ClampBuffer(decoder, hist.buf_len), chunk |-> <<>>,
                res |-> Err("reader")]
    /\ UNCHANGED <<ctor, input, offered, decoder, consumed, misused, hist>>
    /\ UNCHANGED encVars

SyncNext ==
    \/ SyncAtEnd
    \/ \E bytes_read \in 0..MaxBufLen : SyncRead(bytes_read)
    \/ SyncReadFails

SyncSpec == SyncInit /\ [][SyncNext]_<<vars, encVars>>

\* the reader was asked for bytes in the last turn
Asked == last.op # "new" /\ last.asked

DefaultDecoders == {ByteArrayNew(n) : n \in 0..MaxN} \cup {U8New} \cup IntDecoders

\* Default::default() of the type of d
DefaultOf(d) ==
    CASE d.kind = "ByteArray" -> ByteArrayNew(d.N)
      [] d.kind = "U8" -> U8New
      [] d.kind = "Int" -> IntNew(d.inner.N, d.endian)

\* the closure map_err
MapErr(error) == [mapped |-> error]

\* ControlFlow::Continue and ControlFlow::Break
Continue(value) == [flow |-> "Continue", val |-> value]

Break(res) == [flow |-> "Break", res |-> res]

\* Decoder::take: core::mem::take(self).end()
Take(d) == [dec |-> DefaultOf(d), res |-> LeafEnd(d)]

\* sub_decode after self.take() returned t
SubDecodeAfterTake(t, rest) ==
    [dec |-> t.dec, rest |-> rest,
     flow |-> CASE t.res.tag = "Ok" -> Continue(t.res.val)
                [] t.res.tag = "Err" -> Break(Err(MapErr(t.res.err)))
                [] OTHER -> t.res]

\* a sub_decode that takes the value also when the chunk is used up
SubDecodeAfterChunkTakesAlways(r) ==
    IF r.res.tag = "Ok" THEN SubDecodeAfterTake(Take(r.dec), r.rest)
    ELSE [dec |-> r.dec, rest |-> r.rest, flow |-> Break(Err(MapErr(r.res.err)))]

\* sub_decode after self.decode_chunk(bytes) returned r
SubDecodeAfterChunk(r) ==
    CASE r.res.tag = "Err" ->
           [dec |-> r.dec, rest |-> r.rest, flow |-> Break(Err(MapErr(r.res.err)))]
      [] r.res.tag = "Panic" -> [dec |-> r.dec, rest |-> r.rest, flow |-> r.res]
      [] r.rest = <<>> -> [dec |-> r.dec, rest |-> r.rest, flow |-> Break(OkUnit)]
      [] OTHER -> SubDecodeAfterTake(Take(r.dec), r.rest)

SubDecode(d, bytes) == SubDecodeAfterChunk(LeafDecodeChunk(d, bytes))

\* a decoder of a type with Default, and the bytes its caller will have
SubInit ==
    /\ ctor \in DefaultDecoders
    /\ input \in SeqsUpTo(LenBytes, MaxInput)
    /\ offered = 0
    /\ decoder = ctor
    /\ consumed = 0
    /\ status = "active"
    /\ misused = FALSE
    /\ result = NoResult
    /\ hist = [split |-> FALSE]
    /\ last = [op |-> "new", pre |-> ctor]
    /\ EncIdle

\* the caller's state after sub_decode(&mut chunk, map_err) returned r
AfterSubDecode(chunk, r) ==
    /\ decoder' = r.dec
    /\ offered' = offered + (Len(chunk) - Len(r.rest))
    /\ consumed' = consumed + (Len(chunk) - Len(r.rest))
    /\ status' = CASE r.flow = Break(OkUnit) -> "active"
                   [] r.flow.flow = "Continue" -> "active"
                   [] r.flow.flow = "Break" -> "failed"
                   [] OTHER -> "panicked"
    /\ result' = r.flow
    /\ last' = [op |-> "sub_decode", pre |-> decoder, chunk |-> chunk, rest |-> r.rest,
                flow |-> r.flow]

\* decoder.sub_decode(&mut chunk, map_err), chunk being the next n bytes of
\* the input that no sub_decode has consumed
CallSubDecode(n) ==
    /\ status = "active"
    /\ n <= Len(input) - offered
    /\ AfterSubDecode(SubSeq(input, offered + 1, offered + n),
                      SubDecode(decoder, SubSeq(input, offered + 1, offered + n)))
    /\ UNCHANGED <<ctor, input, misused, hist>>
    /\ UNCHANGED encVars

SubNext == \E n \in 0..MaxInput : CallSubDecode(n)

SubSpec == SubInit /\ [][SubNext]_<<vars, encVars>>

\* what decode_chunk does in the last sub_decode
SubChunk == LeafDecodeChunk(last.pre, last.chunk)

\* what end returns for the decoder decode_chunk left in the last sub_decode
SubFinal == LeafEnd(SubChunk.dec)

\* the bytes of the input that make up the value just returned
ValueBytes == SubSeq(input, offered - MinRequiredBytes(ctor) + 1, offered)

DrainInit ==
    /\ ector \in Encoders
    /\ tracked \in BOOLEAN
    /\ enc = IF tracked THEN EncoderPositionTrackerNew(Build(ector)) ELSE Build(ector)
    /\ out = <<>>
    /\ estatus = "active"
    /\ seen = NoChunk
    /\ elast = [op |-> "new"]
    /\ ehist = [ended |-> FALSE, called |-> FALSE]
    /\ ctor = [kind |-> "None"]
    /\ input = <<>>
    /\ offered = 0
    /\ decoder = [kind |-> "None"]
    /\ consumed = 0
    /\ status = "idle"
    /\ misused = FALSE
    /\ result = NoResult
    /\ last = [op |-> "none"]
    /\ hist = [split |-> FALSE]

\* the loop is left: the chunk is empty, or encoded_chunk has panicked
DrainLeft(how) ==
    /\ estatus' = how
    /\ elast' = [op |-> "left", pre |-> enc]
    /\ UNCHANGED <<enc, out, ehist>>

\* write_to_vec after the chunk was appended and next() returned r
VecAfterNext(chunk, r) ==
    /\ out' = out \o chunk
    /\ enc' = r.enc
    /\ estatus' = IF r.more THEN "active" ELSE "drained"
    /\ elast' = [op |-> "next", pre |-> enc, res |-> r.more]
    /\ ehist' = [ended |-> ~r.more, called |-> TRUE]

\* a turn of the while loop of write_to_vec
VecTurn ==
    /\ estatus = "active"
    /\ ~tracked
    /\ IF EncodedChunk(enc) = <<>> THEN DrainLeft("drained")
       ELSE VecAfterNext(EncodedChunk(enc), EncoderNext(enc))
    /\ UNCHANGED <<ector, tracked, seen>>
    /\ UNCHANGED vars

\* the caller's loop after tracker.consume(amount) of amount bytes of chunk
TrackerAfterConsume(chunk, amount) ==
    /\ out' = out \o SliceTo(chunk, amount)
    /\ enc' = Consume(enc, amount)
    /\ estatus' = "active"
    /\ elast' = [op |-> "consume", pre |-> enc, res |-> amount]
    /\ ehist' = [ended |-> ehist.ended \/ ConsumeEnds(enc, amount),
                 called |-> ehist.called \/ amount >= Len(chunk)]

\* a turn of the caller's loop: tracker.encoded_chunk() returned chunk
TrackerAfterChunk(chunk, amount) ==
    CASE chunk.tag = "Panic" -> amount = 1 /\ DrainLeft("panicked")
      [] chunk = Ok(<<>>) -> amount = 1 /\ DrainLeft("drained")
      [] OTHER -> amount <= Len(chunk.val) /\ TrackerAfterConsume(chunk.val, amount)

\* a turn of the loop over the tracker, with consume(amount), amount > 0
TrackerTurn(amount) ==
    /\ estatus = "active"
    /\ tracked
    /\ TrackerAfterChunk(TrackerEncodedChunk(enc), amount)
    /\ UNCHANGED <<ector, tracked, seen>>
    /\ UNCHANGED vars

DrainNext ==
    \/ VecTurn
    \/ \E amount \in 1..MaxChunk : TrackerTurn(amount)

DrainSpec ==
    DrainInit /\ [][DrainNext]_<<vars, encVars>> /\ WF_<<vars, encVars>>(DrainNext)

\* C40, as stated: every drain reaches a next() that returns false
C40_DrainReachesFalse == <>ehist.ended

\* C40: every drain reaches, after finitely many turns, a next() that returns
\* false, or it finds the chunk empty before it has called next() at all and
\* is left then; in both cases the loop is left in the end
C40_DrainTerminates ==
    /\ <>(ehist.ended \/ (estatus = "drained" /\ ~ehist.called))
    /\ <>(estatus # "active")

\* the drain over the tracker of an IterEncoder with three items, two of them
\* empty, has reached the next() that returns false
C40_Witness ==
    /\ tracked
    /\ ector.op = "iter"
    /\ Len(ector.items) = 3
    /\ ector.items[1] = <<>>
    /\ ector.items[3] = <<>>
    /\ ehist.ended
    /\ elast.op = "consume"
    /\ out = ector.items[2]
    /\ Len(out) = 2

====
